---- MODULE Spec2Model ----
(***************************************************************************)
(* ultimate-chat: the orchestration layer (src/lib/orchestrator.ts), the   *)
(* chat endpoint (src/app/api/chat/route.ts), the client-side context      *)
(* manager and the conversation store as used by src/app/page.tsx.         *)
(*                                                                         *)
(* A message part is a record                                              *)
(*   [type, len, marker, code, feats, extra]                               *)
(* type   the part's type tag                                              *)
(* len    the length of its text field (0 when it has none)                *)
(* marker its text contains "<attached_file"                               *)
(* code   its text has name="..." with an extension of the code allowlist  *)
(* feats  the pattern groups of the mode detector its text matches         *)
(* extra  every other field of the part (tool-call id, signature, url...)  *)
(***************************************************************************)
EXTENDS Integers, Sequences, FiniteSets, TLC

VARIABLES
    \* --- trimMessagesToFit on its own (the trim specification)
    tMessages,      \* the message history handed to trimMessagesToFit
    tPromptLen,     \* systemPrompt.length of orchestrate's step 5
    tResult,        \* the trimmed messages
    tPc             \* "input" before the call, "done" after it

trimVars == <<tMessages, tPromptLen, tResult, tPc>>

VARIABLES
    \* --- one request to the chat endpoint (the orchestration specification)
    oPc,            \* where POST / orchestrate stands
    oBody,          \* the request body
    oMessages,      \* preservedMessages, orchestrate's config.messages
    oAtt,           \* attachmentInfo
    oMode,          \* detectedMode
    oLevel,         \* detectedThinkingLevel
    oPlan,          \* researchPlan
    oPlanAttempt,   \* attempt of generateResearchPlanWithRetry
    oPrompt,        \* systemPrompt, as its sequence of blocks
    oTrimmed,       \* trimmedMessages
    oParams,        \* maxSteps, geminiThinkingLevel, dynamicMaxTokens
    oAttempt,       \* attempt of the retry loop
    oLog,           \* the provider calls and sleeps made so far, in order
    oResult,        \* the stream orchestrate returned, or what a 400 carries
    oStatus,        \* the status of the endpoint's response (0: none yet)
    oAbortedAt      \* the length of oLog when the stream was cancelled (0: not)

orchVars == <<oPc, oBody, oMessages, oAtt, oMode, oLevel, oPlan, oPlanAttempt,
              oPrompt, oTrimmed, oParams, oAttempt, oLog, oResult, oStatus,
              oAbortedAt>>

VARIABLES
    \* --- the client session of src/app/page.tsx and its conversation store
    cDb,            \* db.conversations: id -> stored conversation
    cCur,           \* currentConversation (its id)
    cUi,            \* useChat's messages
    cMid,           \* midTermSummary
    cStatus,        \* useChat's status
    cLast,          \* localStorage lastConversationId (0: not set)
    cSubmit,        \* the handleSubmit call in flight
    cStream,        \* id of the assistant message of the request in flight
    cFinish,        \* the onFinish call in flight
    cTurns,         \* number of handleSubmit calls made in this session
    \* --- history variables of the client session
    cPersisted,     \* message id -> the parts handed to addMessage with it
    cLoaded,        \* cUi is what the last handleSelectConversation restored
    cSaves,         \* the updateConversationSummary calls made, in order
    cLastFinish,    \* what the last completed onFinish call went through
    cInitialized,   \* initialized
    cDeleted        \* the ids db.conversations.delete has removed

clientVars == <<cDb, cCur, cUi, cMid, cStatus, cLast, cSubmit, cStream, cFinish,
                cTurns, cPersisted, cLoaded, cSaves, cLastFinish, cInitialized,
                cDeleted>>

VARIABLES
    \* --- shouldSummarize on its own (the threshold specification)
    sMessages,      \* the message list handed to shouldSummarize
    sHasSummary,    \* the stored conversation has a summary
    sResult,        \* what shouldSummarize / checkAndSummarize decided
    sPc             \* "input" before the call, "done" after it

shouldVars == <<sMessages, sHasSummary, sResult, sPc>>

VARIABLES
    \* --- the preferences store and the pages (tabs) that share it
    pStore,         \* db.preferences: the set of its rows
    pTab,           \* per tab: "new" before the init effect, "init", "ready"
    pCall,          \* per tab: the preferences call in flight
    pLtm,           \* per tab: longTermMemory (the state of Home)
    pPanel,         \* per tab: preferences (the state of SettingsPanel)
    pSent,          \* per tab: what the last chat request carried
    pSaved,         \* per tab: a save of changed preferences has completed
    pErrors         \* the preferences calls that were rejected

prefVars == <<pStore, pTab, pCall, pLtm, pPanel, pSent, pSaved, pErrors>>

vars == <<trimVars, orchVars, clientVars, shouldVars, prefVars>>

\* ------------------------------------------------------------------------
\* Constants of src/lib/orchestrator.ts
\* ------------------------------------------------------------------------
MAX_RETRIES == 3
RETRY_DELAY_BASE == 1000
MAX_CONTEXT_CHARS == 400000
SYSTEM_PROMPT_RESERVE == 10000
IMAGE_CHARS == 1000

\* ------------------------------------------------------------------------
\* Bounds of the model
\* ------------------------------------------------------------------------
MaxHistory == 3

\* ------------------------------------------------------------------------
\* Message parts
\* ------------------------------------------------------------------------
Part(type, len, marker, code, feats, extra) ==
    [type |-> type, len |-> len, marker |-> marker, code |-> code,
     feats |-> feats, extra |-> extra]

TextPart(len) == Part("text", len, FALSE, FALSE, {}, "none")
ImagePart == Part("image", 0, FALSE, FALSE, {}, "url")
ToolCallPart == Part("tool-call", 0, FALSE, FALSE, {}, "call1")

Msg(id, role, content, parts) ==
    [id |-> id, role |-> role, content |-> content, parts |-> parts]

\* ------------------------------------------------------------------------
\* estimateMessageChars, trimMessagesToFit
\* ------------------------------------------------------------------------
RECURSIVE PartsLength(_)
PartsLength(parts) ==
    IF parts = <<>> THEN 0
    ELSE LET p == Head(parts) IN
         (CASE p.type = "text" -> p.len
            [] p.type = "image" -> IMAGE_CHARS
            [] OTHER -> 0) + PartsLength(Tail(parts))

RECURSIVE EstimateMessageChars(_)
EstimateMessageChars(messages) ==
    IF messages = <<>> THEN 0
    ELSE PartsLength(Head(messages).parts) + EstimateMessageChars(Tail(messages))

\* The body of the for loop, from index i (1-based) down to 1.
RECURSIVE TrimLoop(_, _, _, _, _)
TrimLoop(messages, maxChars, i, result, totalChars) ==
    IF i < 1 THEN result
    ELSE LET msg == messages[i]
             msgChars == EstimateMessageChars(<<msg>>)
         IN IF totalChars + msgChars > maxChars
            THEN (IF Len(result) = 0 THEN <<msg>> ELSE result)
            ELSE TrimLoop(messages, maxChars, i - 1, <<msg>> \o result,
                          totalChars + msgChars)

\* A trim that drops a message that does not fit and goes on to older ones.
TrimSkipping(messages, maxChars) ==
    LET RECURSIVE Loop(_, _, _)
        Loop(i, result, totalChars) ==
            IF i < 1 THEN result
            ELSE LET msg == messages[i]
                     msgChars == EstimateMessageChars(<<msg>>)
                 IN IF totalChars + msgChars > maxChars
                    THEN Loop(i - 1, result, totalChars)
                    ELSE Loop(i - 1, <<msg>> \o result, totalChars + msgChars)
    IN Loop(Len(messages), <<>>, 0)

TrimMessagesToFit(messages, maxChars) ==
    TrimLoop(messages, maxChars, Len(messages), <<>>, 0)

\* A budget that forgets the reserve for the provider's overhead.
AvailableCharsNoReserve(promptLen) == MAX_CONTEXT_CHARS - promptLen

AvailableChars(promptLen) ==
    MAX_CONTEXT_CHARS - promptLen - SYSTEM_PROMPT_RESERVE

\* ------------------------------------------------------------------------
\* Mode detector (src/lib/db/conversations.ts, second half)
\* A text is seen through the pattern groups it matches.
\* ------------------------------------------------------------------------
Modes == {"general", "research", "coding"}
ThinkingLevels == {"minimal", "low", "medium", "high"}

DetectModeQuick(feats) ==
    IF "codingPattern" \in feats THEN "coding"
    ELSE IF "codingKeyword" \in feats THEN "coding"
    ELSE IF "researchPattern" \in feats THEN "research"
    ELSE IF "researchKeyword" \in feats THEN "research"
    ELSE IF "url" \in feats THEN "research"
    ELSE "general"

NeedsSearchQuick(feats) == "searchPattern" \in feats

\* An adjustment that leaves the quick mode as it is.
AdjustKeepsMode(detectedMode, hasText, hasImage, hasCode) ==
    [mode |-> detectedMode,
     thinkingLevel |-> IF detectedMode = "research" THEN "high" ELSE "medium"]

AdjustModeForAttachments(detectedMode, hasText, hasImage, hasCode) ==
    IF hasCode /\ detectedMode = "coding"
    THEN [mode |-> "coding", thinkingLevel |-> "high"]
    ELSE IF (hasText \/ hasImage) /\ detectedMode = "research"
    THEN [mode |-> "general", thinkingLevel |-> "medium"]
    ELSE IF hasImage /\ detectedMode = "general"
    THEN [mode |-> "general", thinkingLevel |-> "medium"]
    ELSE IF hasText
    THEN [mode |-> detectedMode, thinkingLevel |-> "medium"]
    ELSE [mode |-> detectedMode,
          thinkingLevel |-> IF detectedMode = "research" THEN "high" ELSE "medium"]

\* What a provider call gives back: a value, or a thrown value.
\* isError: the thrown value is an Error; msg: the signature in its message.
OkOut == [ok |-> TRUE, isError |-> FALSE, msg |-> "", val |-> "none"]
Thrown(isError, msg) == [ok |-> FALSE, isError |-> isError, msg |-> msg, val |-> "none"]
Value(v) == [ok |-> TRUE, isError |-> FALSE, msg |-> "", val |-> v]

\* A default that escalates instead of falling back.
DefaultIntentResearch == [mode |-> "research", thinkingLevel |-> "high"]

DefaultIntent == [mode |-> "general", thinkingLevel |-> "medium"]

\* detectIntent: the classification of the provider, or the default one
DetectIntent(out) ==
    IF out.ok THEN out.val ELSE DefaultIntent

\* ------------------------------------------------------------------------
\* orchestrator.ts helpers
\* ------------------------------------------------------------------------
RetryableSignatures ==
    {"429", "503", "504", "rate limit", "timeout", "temporarily", "resource_exhausted"}

\* Every thrown value counts as retryable.
IsRetryableAlways(error) == TRUE

IsRetryableError(error) ==
    IF error.isError THEN error.msg \in RetryableSignatures ELSE FALSE

AllParts(messages) ==
    UNION { { messages[i].parts[k] : k \in 1..Len(messages[i].parts) }
            : i \in 1..Len(messages) }

\* An analysis that looks at the newest message only.
AnalyzeNewestMessage(messages) ==
    LET newest == IF messages = <<>> THEN <<>> ELSE <<messages[Len(messages)]>>
        hasImage == \E p \in AllParts(newest) : p.type = "image"
        hasText == \E p \in AllParts(newest) :
                       p.type = "file" \/ (p.type = "text" /\ p.marker)
        hasCode == \E p \in AllParts(newest) :
                       p.type = "text" /\ p.marker /\ p.code
    IN [hasAttachments |-> hasText \/ hasImage \/ hasCode,
        hasTextAttachment |-> hasText,
        hasImageAttachment |-> hasImage,
        hasCodeAttachment |-> hasCode]

AnalyzeAttachments(messages) ==
    LET hasImage == \E p \in AllParts(messages) : p.type = "image"
        hasText == \E p \in AllParts(messages) :
                       p.type = "file" \/ (p.type = "text" /\ p.marker)
        hasCode == \E p \in AllParts(messages) :
                       p.type = "text" /\ p.marker /\ p.code
    IN [hasAttachments |-> hasText \/ hasImage \/ hasCode,
        hasTextAttachment |-> hasText,
        hasImageAttachment |-> hasImage,
        hasCodeAttachment |-> hasCode]

\* An analysis that never reports an attachment.
AnalyzeNothing(messages) ==
    [hasAttachments |-> FALSE, hasTextAttachment |-> FALSE,
     hasImageAttachment |-> FALSE, hasCodeAttachment |-> FALSE]

RECURSIVE LastUserContent(_)
LastUserContent(messages) ==
    IF messages = <<>> THEN {}
    ELSE IF messages[Len(messages)].role = "user"
    THEN messages[Len(messages)].content
    ELSE LastUserContent(SubSeq(messages, 1, Len(messages) - 1))

\* ------------------------------------------------------------------------
\* Prompt builder (src/lib/prompt-builder.ts) and the blocks orchestrate
\* appends. A prompt is the sequence of its blocks.
\* ------------------------------------------------------------------------
NoSummary == [present |-> FALSE, wellFormed |-> TRUE, len |-> 0]
Summary(wellFormed, len) == [present |-> TRUE, wellFormed |-> wellFormed, len |-> len]

BuildSystemPrompt(mode, longTermMemory, midTermSummary) ==
    <<"base", "tools", mode>>
    \o (IF longTermMemory > 0 THEN <<"ltm">> ELSE <<>>)
    \o (IF midTermSummary.present THEN <<"summary">> ELSE <<>>)

\* midTermSummary.decisions.join throws when decisions is no array
BuildSystemPromptThrows(midTermSummary) ==
    midTermSummary.present /\ ~midTermSummary.wellFormed

\* The lengths of the fixed blocks are those of the prompt texts; the memory
\* blocks are as long as the request makes them.
BlockLen(block, body, plan) ==
    CASE block = "base" -> 3000
      [] block = "tools" -> 1500
      [] block \in Modes -> 2000
      [] block = "ltm" -> 10 + body.longTermMemory
      [] block = "summary" -> 40 + body.midTermSummary.len
      [] block = "plan" -> 120 + 30 * plan.queries
      [] block = "attach" -> 400
      [] block = "recovery" -> 300
      [] OTHER -> 0

RECURSIVE PromptLength(_, _, _)
PromptLength(blocks, body, plan) ==
    IF blocks = <<>> THEN 0
    ELSE BlockLen(Head(blocks), body, plan) + PromptLength(Tail(blocks), body, plan)

NoPlan == [present |-> FALSE, queries |-> 0]
Plan(n) == [present |-> TRUE, queries |-> n]

\* A step ceiling that looks at the mode alone.
MaxStepsByMode(att, mode) ==
    IF mode = "research" THEN 10
    ELSE IF mode = "coding" THEN 5
    ELSE 3

MaxSteps(att, mode) ==
    IF att.hasAttachments THEN 3
    ELSE IF mode = "research" THEN 10
    ELSE IF mode = "coding" THEN 5
    ELSE 3

DynamicMaxTokens(inputChars) ==
    IF inputChars > 200000 THEN 16384 ELSE 65536

\* A backoff that grows linearly from zero.
DelayLinear(attempt) == RETRY_DELAY_BASE * 2 * attempt

Delay(attempt) == RETRY_DELAY_BASE * (2 ^ attempt)

\* ------------------------------------------------------------------------
\* Chat endpoint (src/app/api/chat/route.ts, second variant)
\* ------------------------------------------------------------------------
MAX_MESSAGES == 100
MAX_LONG_TERM_MEMORY == 10000

\* A schema without the cap on the number of messages.
SchemaOkNoCap(body) ==
    /\ \A i \in 1..Len(body.messages) :
          body.messages[i].role \in {"user", "assistant", "system"}
    /\ body.mode \in {"absent", "auto"} \cup Modes
    /\ body.thinkingLevel \in {"absent"} \cup ThinkingLevels
    /\ body.longTermMemory <= MAX_LONG_TERM_MEMORY

SchemaOk(body) ==
    /\ Len(body.messages) <= MAX_MESSAGES
    /\ \A i \in 1..Len(body.messages) :
          body.messages[i].role \in {"user", "assistant", "system"}
    /\ body.mode \in {"absent", "auto"} \cup Modes
    /\ body.thinkingLevel \in {"absent"} \cup ThinkingLevels
    /\ body.longTermMemory <= MAX_LONG_TERM_MEMORY

\* content: the text parts without the attachment marker, joined
RECURSIVE QuestionFeats(_)
QuestionFeats(parts) ==
    IF parts = <<>> THEN {}
    ELSE (IF Head(parts).type = "text" /\ ~Head(parts).marker
          THEN Head(parts).feats ELSE {})
         \cup QuestionFeats(Tail(parts))

PreservedMessages(messages) ==
    [i \in 1..Len(messages) |->
        Msg(messages[i].id, messages[i].role,
            QuestionFeats(messages[i].parts), messages[i].parts)]

\* A route that never hands the requested mode on.
ExplicitModeDropped(body) == "absent"

ExplicitMode(body) ==
    IF body.mode = "auto" \/ body.mode = "absent" THEN "absent" ELSE body.mode

UseAutoDetect(body) == body.mode = "absent" \/ body.mode = "auto"

\* ------------------------------------------------------------------------
\* orchestrate, step 2: the classification that needs no provider call.
\* ai: the AI classifier is to be awaited.
\* ------------------------------------------------------------------------
\* An escalation on every question that may need a search.
NeedsAiIntentOnSearch(quickMode, needsSearch) == needsSearch

\* the condition of the AI intent branch
NeedsAiIntent(quickMode, needsSearch) == quickMode = "general" /\ needsSearch

\* A classification that lets the supplied thinking level stand.
ClassifyKeepingSuppliedLevel(body, messages, att) ==
    LET explicitMode == ExplicitMode(body)
        mode0 == IF explicitMode = "absent" THEN "general" ELSE explicitMode
        level0 == IF body.thinkingLevel = "absent" THEN "medium" ELSE body.thinkingLevel
        quickMode == DetectModeQuick(LastUserContent(messages))
        needsSearch == NeedsSearchQuick(LastUserContent(messages))
        adjusted == AdjustModeForAttachments(quickMode, att.hasTextAttachment,
                        att.hasImageAttachment, att.hasCodeAttachment)
    IN IF UseAutoDetect(body) /\ explicitMode = "absent"
       THEN IF att.hasAttachments
            THEN [mode |-> adjusted.mode, level |-> adjusted.thinkingLevel, ai |-> FALSE]
            ELSE IF NeedsAiIntent(quickMode, needsSearch)
            THEN [mode |-> mode0, level |-> level0, ai |-> TRUE]
            ELSE [mode |-> quickMode, level |-> level0, ai |-> FALSE]
       ELSE [mode |-> mode0, level |-> level0, ai |-> FALSE]

Classify(body, messages, att) ==
    LET explicitMode == ExplicitMode(body)
        mode0 == IF explicitMode = "absent" THEN "general" ELSE explicitMode
        level0 == IF body.thinkingLevel = "absent" THEN "medium" ELSE body.thinkingLevel
        quickMode == DetectModeQuick(LastUserContent(messages))
        needsSearch == NeedsSearchQuick(LastUserContent(messages))
        adjusted == AdjustModeForAttachments(quickMode, att.hasTextAttachment,
                        att.hasImageAttachment, att.hasCodeAttachment)
    IN IF UseAutoDetect(body) /\ explicitMode = "absent"
       THEN IF att.hasAttachments
            THEN [mode |-> adjusted.mode, level |-> adjusted.thinkingLevel, ai |-> FALSE]
            ELSE IF NeedsAiIntent(quickMode, needsSearch)
            THEN [mode |-> mode0, level |-> level0, ai |-> TRUE]
            ELSE [mode |-> quickMode,
                  level |-> IF quickMode \in {"research", "coding"} THEN "high" ELSE "medium",
                  ai |-> FALSE]
       ELSE [mode |-> mode0, level |-> level0, ai |-> FALSE]

\* A loop that also sleeps after its last attempt.
ShouldRetryOnLast(error, attempt) ==
    IsRetryableError(error) /\ attempt < MAX_RETRIES

\* the catch branch of the retry loop: sleep and go round again?
ShouldRetry(error, attempt) ==
    IsRetryableError(error) /\ attempt < MAX_RETRIES - 1

\* A planner gate that looks at the mode alone.
PlanWantedByMode(mode, att) == mode = "research"

\* step 3's condition
PlanWanted(mode, att) == mode = "research" /\ ~att.hasAttachments

Event(ev, out, ms, params) == [ev |-> ev, out |-> out, ms |-> ms, params |-> params]
NoParams == [tools |-> FALSE, thinking |-> "none", maxTokens |-> 0, maxSteps |-> 0,
             recovery |-> FALSE]

MainParams(params) ==
    [tools |-> TRUE, thinking |-> params.thinking, maxTokens |-> params.maxTokens,
     maxSteps |-> params.maxSteps, recovery |-> FALSE]

FallbackParams ==
    [tools |-> FALSE, thinking |-> "minimal", maxTokens |-> 16384, maxSteps |-> 0,
     recovery |-> TRUE]

\* A fallback that keeps the tools and the thinking level of the main call.
FallbackParamsAsMain ==
    [tools |-> TRUE, thinking |-> "medium", maxTokens |-> 16384, maxSteps |-> 0,
     recovery |-> TRUE]

OrchIdle ==
    /\ oPc = "idle"
    /\ oBody = "none"
    /\ oMessages = <<>>
    /\ oAtt = AnalyzeNothing(<<>>)
    /\ oMode = "general"
    /\ oLevel = "medium"
    /\ oPlan = NoPlan
    /\ oPlanAttempt = 0
    /\ oPrompt = <<>>
    /\ oTrimmed = <<>>
    /\ oParams = NoParams
    /\ oAttempt = 0
    /\ oLog = <<>>
    /\ oResult = "none"
    /\ oStatus = 0
    /\ oAbortedAt = 0

\* POST up to orchestrate's first await: body parsing, validation, steps 1-2
RoutePost ==
    /\ oPc = "recv"
    /\ IF ~oBody.json
       THEN /\ oPc' = "responded"
            /\ oStatus' = 400
            /\ oResult' = "invalidJson"
            /\ UNCHANGED <<oMessages, oAtt, oMode, oLevel>>
       ELSE IF ~SchemaOk(oBody)
       THEN /\ oPc' = "responded"
            /\ oStatus' = 400
            /\ oResult' = "issues"
            /\ UNCHANGED <<oMessages, oAtt, oMode, oLevel>>
       ELSE LET messages == PreservedMessages(oBody.messages)
                att == AnalyzeAttachments(messages)
                c == Classify(oBody, messages, att)
            IN /\ oMessages' = messages
               /\ oAtt' = att
               /\ oMode' = c.mode
               /\ oLevel' = c.level
               /\ oPc' = IF c.ai THEN "intent"
                         ELSE IF PlanWanted(c.mode, att) THEN "plan" ELSE "build"
               /\ UNCHANGED <<oStatus, oResult>>
    /\ UNCHANGED <<oBody, oPlan, oPlanAttempt, oPrompt, oTrimmed, oParams,
                   oAttempt, oLog>>
    /\ UNCHANGED oAbortedAt
    /\ UNCHANGED <<trimVars, clientVars, shouldVars, prefVars>>

\* await detectIntent(...) resumes
IntentReturns(out) ==
    /\ oPc = "intent"
    /\ LET intent == DetectIntent(out)
       IN /\ oMode' = intent.mode
          /\ oLevel' = intent.thinkingLevel
          /\ oPc' = IF PlanWanted(intent.mode, oAtt) THEN "plan" ELSE "build"
    /\ oLog' = Append(oLog, Event("intent", out, 0, NoParams))
    /\ UNCHANGED <<oBody, oMessages, oAtt, oPlan, oPlanAttempt, oPrompt, oTrimmed,
                   oParams, oAttempt, oResult, oStatus>>
    /\ UNCHANGED oAbortedAt
    /\ UNCHANGED <<trimVars, clientVars, shouldVars, prefVars>>

\* A planner that waits and tries again after every retryable failure.
PlanShouldRetryAgain(error, attempt) == IsRetryableError(error)

\* the planner's catch: isRetryableError(error) && attempt < 1
PlanShouldRetry(error, attempt) == IsRetryableError(error) /\ attempt < 1

\* one attempt of generateResearchPlanWithRetry: await generateObject(...)
PlanAttempt(out) ==
    /\ oPc = "plan"
    /\ oPlanAttempt < 2
    /\ oLog' = Append(oLog, Event("plan", out, 0, NoParams))
    /\ IF out.ok
       THEN /\ oPlan' = out.val
            /\ oPc' = "build"
            /\ UNCHANGED oPlanAttempt
       ELSE IF PlanShouldRetry(out, oPlanAttempt)
       THEN /\ oPc' = "planSleep"
            /\ UNCHANGED <<oPlan, oPlanAttempt>>
       ELSE \* throw lastError, caught by orchestrate: no plan
            /\ oPc' = "build"
            /\ UNCHANGED <<oPlan, oPlanAttempt>>
    /\ UNCHANGED <<oBody, oMessages, oAtt, oMode, oLevel, oPrompt, oTrimmed,
                   oParams, oAttempt, oResult, oStatus>>
    /\ UNCHANGED oAbortedAt
    /\ UNCHANGED <<trimVars, clientVars, shouldVars, prefVars>>

\* await sleep(...) of the planner resumes
PlanBackoff ==
    /\ oPc = "planSleep"
    /\ oLog' = Append(oLog, Event("planSleep", OkOut, Delay(oPlanAttempt), NoParams))
    /\ oPlanAttempt' = oPlanAttempt + 1
    /\ oPc' = IF oPlanAttempt + 1 < 2 THEN "plan" ELSE "build"
    /\ UNCHANGED <<oBody, oMessages, oAtt, oMode, oLevel, oPlan, oPrompt, oTrimmed,
                   oParams, oAttempt, oResult, oStatus>>
    /\ UNCHANGED oAbortedAt
    /\ UNCHANGED <<trimVars, clientVars, shouldVars, prefVars>>

\* steps 3 (the appended blocks) to 6
Build ==
    /\ oPc = "build"
    /\ IF BuildSystemPromptThrows(oBody.midTermSummary)
       THEN /\ oPc' = "threw"
            /\ UNCHANGED <<oPrompt, oTrimmed, oParams>>
       ELSE LET prompt == BuildSystemPrompt(oMode, oBody.longTermMemory,
                                            oBody.midTermSummary)
                          \o (IF oPlan.present THEN <<"plan">> ELSE <<>>)
                          \o (IF oAtt.hasAttachments THEN <<"attach">> ELSE <<>>)
                trimmed == TrimMessagesToFit(oMessages,
                               AvailableChars(PromptLength(prompt, oBody, oPlan)))
            IN /\ oPrompt' = prompt
               /\ oTrimmed' = trimmed
               /\ oParams' = [tools |-> TRUE, thinking |-> oLevel,
                              maxTokens |-> DynamicMaxTokens(EstimateMessageChars(trimmed)),
                              maxSteps |-> MaxSteps(oAtt, oMode), recovery |-> FALSE]
               /\ oPc' = "main"
    /\ UNCHANGED <<oBody, oMessages, oAtt, oMode, oLevel, oPlan, oPlanAttempt,
                   oAttempt, oLog, oResult, oStatus>>
    /\ UNCHANGED oAbortedAt
    /\ UNCHANGED <<trimVars, clientVars, shouldVars, prefVars>>

\* one pass of the retry loop: streamText(...) returns or throws
MainAttempt(out) ==
    /\ oPc = "main"
    /\ oAttempt < MAX_RETRIES
    /\ oLog' = Append(oLog, Event("main", out, 0, MainParams(oParams)))
    /\ IF out.ok
       THEN /\ oResult' = "main"
            /\ oPc' = "returned"
       ELSE /\ oPc' = IF ShouldRetry(out, oAttempt) THEN "sleep" ELSE "fallback"
            /\ UNCHANGED oResult
    /\ UNCHANGED <<oBody, oMessages, oAtt, oMode, oLevel, oPlan, oPlanAttempt,
                   oPrompt, oTrimmed, oParams, oAttempt, oStatus>>
    /\ UNCHANGED oAbortedAt
    /\ UNCHANGED <<trimVars, clientVars, shouldVars, prefVars>>

\* await sleep(delay) resumes, attempt++
Backoff ==
    /\ oPc = "sleep"
    /\ oLog' = Append(oLog, Event("sleep", OkOut, Delay(oAttempt), NoParams))
    /\ oAttempt' = oAttempt + 1
    /\ oPc' = IF oAttempt + 1 < MAX_RETRIES THEN "main" ELSE "fallback"
    /\ UNCHANGED <<oBody, oMessages, oAtt, oMode, oLevel, oPlan, oPlanAttempt,
                   oPrompt, oTrimmed, oParams, oResult, oStatus>>
    /\ UNCHANGED oAbortedAt
    /\ UNCHANGED <<trimVars, clientVars, shouldVars, prefVars>>

\* the fallback streamText(...), outside every try
Fallback(out) ==
    /\ oPc = "fallback"
    /\ oLog' = Append(oLog, Event("fallback", out, 0, FallbackParams))
    /\ IF out.ok
       THEN /\ oResult' = "fallback"
            /\ oPc' = "returned"
       ELSE /\ oPc' = "threw"
            /\ UNCHANGED oResult
    /\ UNCHANGED <<oBody, oMessages, oAtt, oMode, oLevel, oPlan, oPlanAttempt,
                   oPrompt, oTrimmed, oParams, oAttempt, oStatus>>
    /\ UNCHANGED oAbortedAt
    /\ UNCHANGED <<trimVars, clientVars, shouldVars, prefVars>>

\* A cancellation taken for a failure of the provider.
OnAbortAsFailure(pc) == "sleep"

\* where the request stands after its stream was cancelled: orchestrate has
\* returned, its retry loop and fallback are behind it
OnAbort(pc) == pc

\* the client cancels the stream that orchestrate returned (stop of useChat)
StreamAbort ==
    /\ oPc \in {"returned", "responded"}
    /\ oResult \in {"main", "fallback"}
    /\ oAbortedAt = 0
    /\ oAbortedAt' = Len(oLog)
    /\ oPc' = OnAbort(oPc)
    /\ UNCHANGED <<oBody, oMessages, oAtt, oMode, oLevel, oPlan, oPlanAttempt,
                   oPrompt, oTrimmed, oParams, oAttempt, oLog, oResult, oStatus>>
    /\ UNCHANGED <<trimVars, clientVars, shouldVars, prefVars>>

\* POST after await orchestrate(...): the stream response, or the catch
RouteRespond ==
    /\ oPc \in {"returned", "threw"}
    /\ oStatus' = IF oPc = "returned" THEN 200 ELSE 500
    /\ oPc' = "responded"
    /\ UNCHANGED <<oBody, oMessages, oAtt, oMode, oLevel, oPlan, oPlanAttempt,
                   oPrompt, oTrimmed, oParams, oAttempt, oLog, oResult>>
    /\ UNCHANGED oAbortedAt
    /\ UNCHANGED <<trimVars, clientVars, shouldVars, prefVars>>

\* ------------------------------------------------------------------------
\* The orchestration specification: one request, the provider answering
\* each call with a value or a thrown value.
\* ------------------------------------------------------------------------
FeatChoices ==
    { {}, {"searchPattern"}, {"researchPattern", "searchPattern"},
      {"codingPattern", "researchPattern"}, {"url"}, {"codingKeyword"} }

QuestionPart(feats) == Part("text", 3, FALSE, FALSE, feats, "none")
AttachedText(code) == Part("text", 5, TRUE, code, {"codingPattern"}, "none")
FilePart == Part("file", 0, FALSE, FALSE, {}, "pdf")

AttachChoices ==
    { <<>>, <<ImagePart>>, <<FilePart>>, <<AttachedText(TRUE)>>, <<AttachedText(FALSE)>> }

\* an older exchange in which an image was sent
OldExchange ==
    << [id |-> 1, role |-> "user", parts |-> <<QuestionPart({}), ImagePart>>],
       [id |-> 2, role |-> "assistant", parts |-> <<TextPart(2)>>] >>

OrchHistories ==
    { old \o << [id |-> Len(old) + 1, role |-> "user",
                 parts |-> <<QuestionPart(f)>> \o a] >>
      : old \in {<<>>, OldExchange}, f \in FeatChoices, a \in AttachChoices }

\* long enough to leave a budget of one character to the messages
HugeSummaryLen == MAX_CONTEXT_CHARS - SYSTEM_PROMPT_RESERVE - 6541

Body(json, messages, mode, level, ltm, summary) ==
    [json |-> json, messages |-> messages, mode |-> mode, thinkingLevel |-> level,
     longTermMemory |-> ltm, midTermSummary |-> summary]

\* n plain messages, user and assistant in turn
LongHistory(n) ==
    [i \in 1..n |->
        [id |-> i, role |-> IF i % 2 = 1 THEN "user" ELSE "assistant",
         parts |-> <<QuestionPart({})>>]]

OrchBodies ==
    { Body(TRUE, h, m, l, 0, NoSummary)
      : h \in OrchHistories, m \in {"absent", "auto"} \cup Modes,
        l \in {"absent", "low", "high"} }
    \cup
    { Body(TRUE, <<[id |-> 1, role |-> "user", parts |-> <<QuestionPart(f)>>]>>,
           m, "absent", ltm, s)
      : f \in {{}, {"url"}}, m \in {"absent", "research"}, ltm \in {0, 50},
        s \in {NoSummary, Summary(TRUE, 100), Summary(TRUE, HugeSummaryLen),
               Summary(FALSE, 100)} }
    \cup
    { Body(FALSE, <<>>, "absent", "absent", 0, NoSummary),
      Body(TRUE, <<>>, "turbo", "absent", 0, NoSummary),
      Body(TRUE, LongHistory(MAX_MESSAGES + 1), "absent", "absent", 0, NoSummary),
      Body(TRUE, LongHistory(1), "absent", "max", 0, NoSummary),
      Body(TRUE, LongHistory(1), "absent", "absent", MAX_LONG_TERM_MEMORY + 1,
           NoSummary),
      Body(TRUE, <<[id |-> 1, role |-> "tool", parts |-> <<>>]>>, "absent", "absent",
           0, NoSummary),
      Body(TRUE, <<>>, "absent", "absent", 0, NoSummary) }
    \cup
    { Body(TRUE, OldExchange \o << [id |-> 3, role |-> "user",
                                    parts |-> <<QuestionPart({})>>] >>,
           m, "absent", 0, Summary(TRUE, HugeSummaryLen))
      : m \in {"absent", "research"} }

Errors == { Thrown(TRUE, "503"), Thrown(TRUE, "401"), Thrown(FALSE, "429") }

MainOutcomes == {OkOut} \cup Errors
FallbackOutcomes == {OkOut, Thrown(TRUE, "503")}
PlanOutcomes == { Value(Plan(n)) : n \in {2, 6} } \cup Errors
IntentOutcomes ==
    { Value([mode |-> m, thinkingLevel |-> l]) : m \in Modes, l \in {"low", "high"} }
    \cup { Thrown(TRUE, "503") }

TrimIdle ==
    /\ tMessages = <<>>
    /\ tPromptLen = 0
    /\ tResult = <<>>
    /\ tPc = "idle"

\* The client session and the threshold check before anything is loaded.
NoStoredSummary == [present |-> FALSE, currentState |-> "", from |-> 0]

NoSubmit == [pc |-> "idle", conv |-> 0, message |-> <<>>, parts |-> <<>>, read |-> <<>>]

NoFinish ==
    [pc |-> "idle", conv |-> 0, message |-> <<>>, closure |-> <<>>, read |-> <<>>,
     turns |-> 0, len |-> 0, prior |-> FALSE, before |-> NoStoredSummary,
     kind |-> "none", summary |-> NoStoredSummary]

NoFinishYet ==
    [conv |-> 0, turns |-> 0, len |-> 0, prior |-> FALSE,
     before |-> NoStoredSummary, asked |-> FALSE, resp |-> "none", saved |-> FALSE]

ClientIdle ==
    /\ cDb = <<>>
    /\ cCur = 0
    /\ cUi = <<>>
    /\ cMid = NoStoredSummary
    /\ cStatus = "ready"
    /\ cLast = 0
    /\ cSubmit = NoSubmit
    /\ cStream = 0
    /\ cFinish = NoFinish
    /\ cTurns = 0
    /\ cPersisted = <<>>
    /\ cLoaded = FALSE
    /\ cSaves = <<>>
    /\ cLastFinish = NoFinishYet
    /\ cInitialized = FALSE
    /\ cDeleted = {}

ShouldIdle ==
    /\ sMessages = <<>>
    /\ sHasSummary = FALSE
    /\ sResult = [should |-> FALSE, passes |-> FALSE, resummarize |-> FALSE]
    /\ sPc = "idle"

\* ------------------------------------------------------------------------
\* Preferences (src/unnamed/part_003, db/preferences)
\* ------------------------------------------------------------------------
MaxTabs == 2

Tabs == 1..MaxTabs

DEFAULT_USER_ID == "default"

Preferences(language, codingStyle, preferredStack, customInstructions) ==
    [id |-> DEFAULT_USER_ID, language |-> language, codingStyle |-> codingStyle,
     preferredStack |-> preferredStack, customInstructions |-> customInstructions]

\* preferredStack is the number of its entries, customInstructions its length
DEFAULT_PREFERENCES == Preferences("ja", "typescript", 3, 0)

NoPreferences == [id |-> "none"]
NoCall == [op |-> "none", pc |-> "idle", existing |-> NoPreferences,
           updates |-> NoPreferences]
NoRequest == [sent |-> FALSE, longTermMemory |-> <<>>, stored |-> {},
              afterSave |-> FALSE]

PrefsIdle ==
    /\ pStore = {}
    /\ pTab = <<>>
    /\ pCall = <<>>
    /\ pLtm = <<>>
    /\ pPanel = <<>>
    /\ pSent = <<>>
    /\ pSaved = <<>>
    /\ pErrors = {}

OrchInit ==
    /\ oPc = "recv"
    /\ oBody \in OrchBodies
    /\ oMessages = <<>>
    /\ oAtt = AnalyzeNothing(<<>>)
    /\ oMode = "general"
    /\ oLevel = "medium"
    /\ oPlan = NoPlan
    /\ oPlanAttempt = 0
    /\ oPrompt = <<>>
    /\ oTrimmed = <<>>
    /\ oParams = NoParams
    /\ oAttempt = 0
    /\ oLog = <<>>
    /\ oResult = "none"
    /\ oStatus = 0
    /\ oAbortedAt = 0
    /\ TrimIdle
    /\ ClientIdle
    /\ ShouldIdle
    /\ PrefsIdle

OrchNext ==
    \/ RoutePost
    \/ \E out \in IntentOutcomes : IntentReturns(out)
    \/ \E out \in PlanOutcomes : PlanAttempt(out)
    \/ PlanBackoff
    \/ Build
    \/ \E out \in MainOutcomes : MainAttempt(out)
    \/ Backoff
    \/ \E out \in FallbackOutcomes : Fallback(out)
    \/ StreamAbort
    \/ RouteRespond

SpecOrch == OrchInit /\ [][OrchNext]_vars

\* ------------------------------------------------------------------------
\* The trim specification: every history of 1..MaxHistory messages over the
\* message shapes below, every budget of TrimBudgets.
\* ------------------------------------------------------------------------
TrimShapes ==
    { <<>>,
      <<TextPart(1)>>,
      <<TextPart(3)>>,
      <<ImagePart>>,
      <<TextPart(2), ImagePart>>,
      <<ToolCallPart>> }

TrimBudgets == {-1, 0, 1, 2, 3, 4, 5, 1000, 1001, 1003, 1005, 2002, 2010}

TrimHistories ==
    UNION { { [i \in 1..n |->
                 Msg(i, IF (n - i) % 2 = 0 THEN "user" ELSE "assistant", {}, f[i])]
              : f \in [1..n -> TrimShapes] }
            : n \in 1..MaxHistory }

TrimInit ==
    /\ tMessages \in TrimHistories
    /\ tPromptLen \in { MAX_CONTEXT_CHARS - SYSTEM_PROMPT_RESERVE - b : b \in TrimBudgets }
    /\ tResult = <<>>
    /\ tPc = "input"
    /\ OrchIdle
    /\ ClientIdle
    /\ ShouldIdle
    /\ PrefsIdle

\* orchestrate, step 5
TrimStep ==
    /\ tPc = "input"
    /\ tResult' = TrimMessagesToFit(tMessages, AvailableChars(tPromptLen))
    /\ tPc' = "done"
    /\ UNCHANGED <<tMessages, tPromptLen>>
    /\ UNCHANGED <<orchVars, clientVars, shouldVars, prefVars>>

TrimNext == TrimStep

SpecTrim == TrimInit /\ [][TrimNext]_vars

\* ------------------------------------------------------------------------
\* Conversation store (src/lib/db/conversations.ts)
\*
\* A stored message is Msg(id, role, content, parts) with content the length
\* of its text; a title is its length, or the default title.
\* ------------------------------------------------------------------------
TITLE_MAX == 30

DefaultTitle == [default |-> TRUE, len |-> 5]

Conversation(title, messages, summary) ==
    [exists |-> TRUE, title |-> title, messages |-> messages, summary |-> summary,
     mode |-> "general"]

\* what db.conversations.get answers for an id it does not hold
NoConversation ==
    [exists |-> FALSE, title |-> DefaultTitle, messages |-> <<>>,
     summary |-> NoStoredSummary, mode |-> "general"]

GenerateTitle(content) ==
    [default |-> FALSE,
     len |-> IF content <= TITLE_MAX THEN content ELSE TITLE_MAX + 3]

CreateConversation(db, id) ==
    [db EXCEPT ![id] = Conversation(DefaultTitle, <<>>, NoStoredSummary)]

\* addMessage after its first get: the update it makes from what it read
AddMessageWrite(db, id, read, message) ==
    LET updatedMessages == Append(read.messages, message)
        title == IF read.title = DefaultTitle /\ message.role = "user"
                 THEN GenerateTitle(message.content)
                 ELSE read.title
    IN IF db[id].exists
       THEN [db EXCEPT ![id].messages = updatedMessages, ![id].title = title]
       ELSE db

UpdateConversationSummary(db, id, summary) ==
    IF db[id].exists THEN [db EXCEPT ![id].summary = summary] ELSE db

\* ------------------------------------------------------------------------
\* Client-side context manager (src/unnamed/part_001) and the summarize
\* endpoint (src/app/api/summarize/route.ts)
\* ------------------------------------------------------------------------
SUMMARY_THRESHOLD == 20
SHORT_TERM_TURNS == 20

UserTurns(messages) ==
    Cardinality({ i \in DOMAIN messages : messages[i].role = "user" })

\* A threshold test that counts every message.
ShouldSummarizeAnyRole(messages) == Len(messages) >= SUMMARY_THRESHOLD

ShouldSummarize(messages) == UserTurns(messages) >= SUMMARY_THRESHOLD

\* A summary step that takes the whole list.
MessagesToSummarizeAll(messages) == messages

\* messages.slice(0, -SHORT_TERM_TURNS * 2)
MessagesToSummarize(messages) ==
    SubSeq(messages, 1, Len(messages) - SHORT_TERM_TURNS * 2)

StoredSummary(currentState, from) ==
    [present |-> TRUE, currentState |-> currentState, from |-> from]

\* POST /api/summarize: the status it answers, given the number of messages
\* in conversationHistory and what generateObject did
SummarizePost(historyMessages, out) ==
    IF historyMessages = 0 THEN 400
    ELSE IF out.kind = "object" THEN 200
    ELSE 500

\* ------------------------------------------------------------------------
\* Server-side context manager of the older variant (src/unnamed/part_000)
\* ------------------------------------------------------------------------
RESUMMARY_TURNS == 10

\* Array.prototype.indexOf, 0-based, -1 when absent
IndexOf(messages, x) ==
    IF \E i \in DOMAIN messages : messages[i] = x
    THEN (CHOOSE i \in DOMAIN messages :
            /\ messages[i] = x
            /\ \A j \in DOMAIN messages : messages[j] = x => i <= j) - 1
    ELSE -1

LastSummaryTurn(messages, hasSummary) ==
    IF hasSummary THEN IndexOf(messages, messages[1]) \div 2 ELSE 0

CheckPassesThreshold(messages) == ~(UserTurns(messages) < SUMMARY_THRESHOLD)

\* checkAndSummarize gets as far as generating a summary
CheckResummarizes(messages, hasSummary) ==
    /\ CheckPassesThreshold(messages)
    /\ ~(/\ UserTurns(messages) - LastSummaryTurn(messages, hasSummary) < RESUMMARY_TURNS
         /\ hasSummary)
    /\ Len(MessagesToSummarize(messages)) # 0

\* ------------------------------------------------------------------------
\* Restoring a stored conversation (src/app/page.tsx, handleSelectConversation)
\* ------------------------------------------------------------------------
ToolResultPart == Part("tool-result", 0, FALSE, FALSE, {}, "result1")
SourceUrlPart == Part("source-url", 0, FALSE, FALSE, {}, "url1")

UiMessage(id, role, parts) == [id |-> id, role |-> role, parts |-> parts]

\* A restore that keeps the parts of the known kinds whole and reduces
\* every other part to its type.
RestorePartLossy(part) ==
    IF part.type \in {"text", "image", "file", "tool-call", "tool-result",
                      "thinking", "source"}
    THEN part
    ELSE Part(part.type, 0, FALSE, FALSE, {}, "none")

RestorePart(part) ==
    CASE part.type = "tool-call" -> [part EXCEPT !.type = "tool-call"]
      [] part.type = "tool-result" -> [part EXCEPT !.type = "tool-result"]
      [] part.type = "thinking" -> [part EXCEPT !.type = "thinking"]
      [] part.type = "source" -> [part EXCEPT !.type = "source"]
      [] OTHER -> part

RestoreMessage(m) ==
    LET parts == IF Len(m.parts) = 0
                 THEN <<TextPart(m.content)>>
                 ELSE [i \in DOMAIN m.parts |-> RestorePart(m.parts[i])]
    IN UiMessage(m.id, m.role, parts)

RestoreMessages(messages) ==
    [i \in DOMAIN messages |-> RestoreMessage(messages[i])]

\* onFinish: the text of the streamed message's text parts
RECURSIVE TextContent(_)
TextContent(parts) ==
    IF parts = <<>> THEN 0
    ELSE (IF Head(parts).type = "text" THEN Head(parts).len ELSE 0)
         + TextContent(Tail(parts))

\* ------------------------------------------------------------------------
\* The client session (src/app/page.tsx)
\*
\* One handleSubmit call and one onFinish call are in flight at a time, and
\* a request is sent when the previous stream has ended. Every await of a
\* handler is a step of its own, so the calls interleave at their awaits.
\* onFinish sees the currentConversation and the messages of the last
\* render before the stream ended: the messages with or without the
\* streamed reply.
\* ------------------------------------------------------------------------
MaxNewTurns == 2
MaxConvs == 2

ConvIds == 1..MaxConvs

\* the stored conversation the session starts from: one turn short of the
\* summary threshold, no summary yet
BaseTurns == SUMMARY_THRESHOLD - 1

BaseMessages ==
    [i \in 1..(2 * BaseTurns) |->
        IF i % 2 = 1 THEN Msg(i, "user", 5, <<TextPart(5)>>)
        ELSE Msg(i, "assistant", 7, <<TextPart(7)>>)]

UserInputs ==
    { [content |-> 40, parts |-> <<TextPart(40), ImagePart>>] }

AssistantReplies ==
    { <<ToolCallPart, ToolResultPart, SourceUrlPart, TextPart(7)>>,
      <<>> }

SummarizeOutcomes ==
    { [kind |-> "object", currentState |-> "state"],
      [kind |-> "object", currentState |-> ""],
      [kind |-> "throws", currentState |-> ""],
      [kind |-> "network", currentState |-> ""] }

UserId(turn) == 2 * (BaseTurns + turn) + 1

Finished(conv, turns, len, before, asked, resp, saved) ==
    [conv |-> conv, turns |-> turns, len |-> len,
     prior |-> before.present, before |-> before, asked |-> asked, resp |-> resp,
     saved |-> saved]

\* handleSubmit up to its first await
HandleSubmitStart(input) ==
    /\ cStatus \in {"ready", "streaming"}
    /\ cSubmit.pc = "idle"
    /\ cTurns < MaxNewTurns
    /\ input.content # 0 \/ Len(input.parts) # 0
    /\ LET id == UserId(cTurns)
           userMessage == Msg(id, "user", input.content, input.parts)
       IN /\ cSubmit' = [pc |-> "get", conv |-> cCur, message |-> userMessage,
                         parts |-> input.parts, read |-> <<>>]
          /\ cPersisted' = cPersisted @@ (id :> input.parts)
    /\ cTurns' = cTurns + 1
    /\ UNCHANGED <<cDb, cCur, cUi, cMid, cStatus, cLast, cStream, cFinish,
                   cLoaded, cSaves, cLastFinish>>
    /\ UNCHANGED <<cInitialized, cDeleted>>
    /\ UNCHANGED <<trimVars, orchVars, shouldVars, prefVars>>

\* addMessage: db.conversations.get
SubmitGet ==
    /\ cSubmit.pc = "get"
    /\ cSubmit' = [cSubmit EXCEPT !.read = cDb[cSubmit.conv],
                                   !.pc = IF cDb[cSubmit.conv].exists
                                          THEN "update" ELSE "send"]
    /\ UNCHANGED <<cDb, cCur, cUi, cMid, cStatus, cLast, cStream, cFinish, cTurns,
                   cPersisted, cLoaded, cSaves, cLastFinish>>
    /\ UNCHANGED <<cInitialized, cDeleted>>
    /\ UNCHANGED <<trimVars, orchVars, shouldVars, prefVars>>

\* addMessage: db.conversations.update
SubmitUpdate ==
    /\ cSubmit.pc = "update"
    /\ cDb' = AddMessageWrite(cDb, cSubmit.conv, cSubmit.read, cSubmit.message)
    /\ cSubmit' = [cSubmit EXCEPT !.pc = "send"]
    /\ UNCHANGED <<cCur, cUi, cMid, cStatus, cLast, cStream, cFinish, cTurns,
                   cPersisted, cLoaded, cSaves, cLastFinish>>
    /\ UNCHANGED <<cInitialized, cDeleted>>
    /\ UNCHANGED <<trimVars, orchVars, shouldVars, prefVars>>

\* sendMessage({ parts })
SubmitSend ==
    /\ cSubmit.pc = "send"
    /\ cStatus = "ready"
    /\ cUi' = Append(cUi, UiMessage(0 - cSubmit.message.id, "user", cSubmit.parts))
    /\ cStatus' = "submitted"
    /\ cStream' = cSubmit.message.id + 1
    /\ cSubmit' = NoSubmit
    /\ cLoaded' = FALSE
    /\ UNCHANGED <<cDb, cCur, cMid, cLast, cFinish, cTurns, cPersisted, cSaves,
                   cLastFinish>>
    /\ UNCHANGED <<cInitialized, cDeleted>>
    /\ UNCHANGED <<trimVars, orchVars, shouldVars, prefVars>>

\* the first chunk of the response
StreamStart ==
    /\ cStatus = "submitted"
    /\ cStatus' = "streaming"
    /\ cUi' = Append(cUi, UiMessage(cStream, "assistant", <<>>))
    /\ UNCHANGED <<cDb, cCur, cMid, cLast, cSubmit, cStream, cFinish, cTurns,
                   cPersisted, cLoaded, cSaves, cLastFinish>>
    /\ UNCHANGED <<cInitialized, cDeleted>>
    /\ UNCHANGED <<trimVars, orchVars, shouldVars, prefVars>>

\* the stream ends: onFinish up to its first await
StreamFinish(parts, closureHasReply) ==
    /\ cStatus = "streaming"
    /\ cFinish.pc = "idle"
    /\ LET shown == [cUi EXCEPT ![Len(cUi)].parts = parts]
           dbMessage == Msg(cStream, "assistant", TextContent(parts), parts)
       IN /\ cUi' = shown
          /\ cFinish' = [NoFinish EXCEPT
                           !.pc = "get",
                           !.conv = cCur,
                           !.message = dbMessage,
                           !.closure = IF closureHasReply THEN shown
                                       ELSE SubSeq(cUi, 1, Len(cUi) - 1)]
          /\ cPersisted' = cPersisted @@ (cStream :> parts)
    /\ cStatus' = "ready"
    /\ cStream' = 0
    /\ UNCHANGED <<cDb, cCur, cMid, cLast, cSubmit, cTurns, cLoaded, cSaves,
                   cLastFinish>>
    /\ UNCHANGED <<cInitialized, cDeleted>>
    /\ UNCHANGED <<trimVars, orchVars, shouldVars, prefVars>>

\* addMessage: db.conversations.get
FinishGet ==
    /\ cFinish.pc = "get"
    /\ cFinish' = [cFinish EXCEPT !.read = cDb[cFinish.conv],
                                   !.pc = IF cDb[cFinish.conv].exists
                                          THEN "update" ELSE "check"]
    /\ UNCHANGED <<cDb, cCur, cUi, cMid, cStatus, cLast, cSubmit, cStream, cTurns,
                   cPersisted, cLoaded, cSaves, cLastFinish>>
    /\ UNCHANGED <<cInitialized, cDeleted>>
    /\ UNCHANGED <<trimVars, orchVars, shouldVars, prefVars>>

\* addMessage: db.conversations.update
FinishUpdate ==
    /\ cFinish.pc = "update"
    /\ cDb' = AddMessageWrite(cDb, cFinish.conv, cFinish.read, cFinish.message)
    /\ cFinish' = [cFinish EXCEPT !.pc = "check"]
    /\ UNCHANGED <<cCur, cUi, cMid, cStatus, cLast, cSubmit, cStream, cTurns,
                   cPersisted, cLoaded, cSaves, cLastFinish>>
    /\ UNCHANGED <<cInitialized, cDeleted>>
    /\ UNCHANGED <<trimVars, orchVars, shouldVars, prefVars>>

\* shouldSummarize, and generateAndSaveSummary up to its fetch
FinishCheck ==
    /\ cFinish.pc = "check"
    /\ LET updatedMessages == Append(cFinish.closure, cFinish.message)
           messagesToSummarize == MessagesToSummarize(updatedMessages)
           before == cDb[cFinish.conv].summary
       IN IF ShouldSummarize(updatedMessages) /\ Len(messagesToSummarize) # 0
          THEN /\ cFinish' = [cFinish EXCEPT
                                !.pc = "fetch",
                                !.turns = UserTurns(updatedMessages),
                                !.len = Len(updatedMessages),
                                !.prior = before.present,
                                !.before = before,
                                !.summary = StoredSummary("", Len(messagesToSummarize))]
               /\ UNCHANGED cLastFinish
          ELSE /\ cFinish' = NoFinish
               /\ cLastFinish' = Finished(cFinish.conv, UserTurns(updatedMessages),
                                          Len(updatedMessages), before,
                                          ShouldSummarize(updatedMessages),
                                          "none", FALSE)
    /\ UNCHANGED <<cDb, cCur, cUi, cMid, cStatus, cLast, cSubmit, cStream, cTurns,
                   cPersisted, cLoaded, cSaves>>
    /\ UNCHANGED <<cInitialized, cDeleted>>
    /\ UNCHANGED <<trimVars, orchVars, shouldVars, prefVars>>

\* A reading of the response that takes every answer for a summary.
ResponseOkAlways(status) == TRUE

\* response.ok
ResponseOk(status) == status \in 200..299

\* the summarize request is answered, or fails
FinishFetch(out) ==
    /\ cFinish.pc = "fetch"
    /\ LET ok == out.kind # "network"
                 /\ ResponseOk(SummarizePost(cFinish.summary.from, out))
       IN IF ok
          THEN /\ cFinish' = [cFinish EXCEPT
                                !.pc = "save",
                                !.kind = out.kind,
                                !.summary = StoredSummary(out.currentState,
                                                          cFinish.summary.from)]
               /\ UNCHANGED cLastFinish
          ELSE /\ cFinish' = NoFinish
               /\ cLastFinish' = Finished(cFinish.conv, cFinish.turns, cFinish.len,
                                          cFinish.before, TRUE, out.kind, FALSE)
    /\ UNCHANGED <<cDb, cCur, cUi, cMid, cStatus, cLast, cSubmit, cStream, cTurns,
                   cPersisted, cLoaded, cSaves>>
    /\ UNCHANGED <<cInitialized, cDeleted>>
    /\ UNCHANGED <<trimVars, orchVars, shouldVars, prefVars>>

\* updateConversationSummary, then setMidTermSummary
FinishSave ==
    /\ cFinish.pc = "save"
    /\ cDb' = UpdateConversationSummary(cDb, cFinish.conv, cFinish.summary)
    /\ cMid' = cFinish.summary
    /\ cSaves' = Append(cSaves, [conv |-> cFinish.conv,
                                 turns |-> cFinish.turns,
                                 len |-> cFinish.len,
                                 summary |-> cFinish.summary])
    /\ cLastFinish' = Finished(cFinish.conv, cFinish.turns, cFinish.len,
                               cFinish.before, TRUE, cFinish.kind, TRUE)
    /\ cFinish' = NoFinish
    /\ UNCHANGED <<cCur, cUi, cStatus, cLast, cSubmit, cStream, cTurns,
                   cPersisted, cLoaded>>
    /\ UNCHANGED <<cInitialized, cDeleted>>
    /\ UNCHANGED <<trimVars, orchVars, shouldVars, prefVars>>

\* the body of handleSelectConversation
SelectConversation(id) ==
    /\ LET conversation == cDb[id]
           restoredMessages == RestoreMessages(conversation.messages)
       IN IF conversation.exists
          THEN /\ cCur' = id
               /\ cUi' = restoredMessages
               /\ cMid' = conversation.summary
               /\ cLoaded' = TRUE
          ELSE UNCHANGED <<cCur, cUi, cMid, cLoaded>>
    /\ cLast' = id
    /\ UNCHANGED <<cDb, cStatus, cSubmit, cStream, cFinish, cTurns, cPersisted,
                   cSaves, cLastFinish, cDeleted>>
    /\ UNCHANGED <<trimVars, orchVars, shouldVars, prefVars>>

HandleSelectConversation(id) ==
    /\ cInitialized
    /\ cStatus = "ready"
    /\ SelectConversation(id)
    /\ UNCHANGED cInitialized

\* the ids createConversation can draw: never one that was used before
FreshIds ==
    { id \in ConvIds :
        /\ ~cDb[id].exists
        /\ id \notin cDeleted
        /\ \A other \in ConvIds : other < id => (cDb[other].exists \/ other \in cDeleted) }

\* handleCreateNewConversation (Ctrl/Cmd + N), and the sidebar's
\* handleNewConversation followed by the page's handleNewConversation
HandleCreateNewConversation ==
    /\ cInitialized
    /\ cStatus = "ready"
    /\ \E id \in FreshIds :
        /\ cDb' = CreateConversation(cDb, id)
        /\ cCur' = id
    /\ cUi' = <<>>
    /\ cLoaded' = FALSE
    /\ UNCHANGED <<cMid, cStatus, cLast, cSubmit, cStream, cFinish, cTurns,
                   cPersisted, cSaves, cLastFinish>>
    /\ UNCHANGED <<cInitialized, cDeleted>>
    /\ UNCHANGED <<trimVars, orchVars, shouldVars, prefVars>>

\* deleteConversation
DeleteConversation(db, id) == [db EXCEPT ![id] = NoConversation]

\* the sidebar's confirmDelete: the conversation is deleted and, when it was
\* the current one, a new conversation is created and made current
ConfirmDelete(id) ==
    /\ cInitialized
    /\ cStatus = "ready"
    /\ cDb[id].exists
    /\ cDeleted' = cDeleted \cup {id}
    /\ IF cCur = id
       THEN /\ \E new \in FreshIds :
                 /\ cDb' = CreateConversation(DeleteConversation(cDb, id), new)
                 /\ cCur' = new
            /\ cUi' = <<>>
            /\ cLoaded' = FALSE
       ELSE /\ cDb' = DeleteConversation(cDb, id)
            /\ UNCHANGED <<cCur, cUi, cLoaded>>
    /\ UNCHANGED <<cMid, cStatus, cLast, cSubmit, cStream, cFinish, cTurns,
                   cPersisted, cSaves, cLastFinish, cInitialized>>
    /\ UNCHANGED <<trimVars, orchVars, shouldVars, prefVars>>

\* the page is loaded again: the component state is gone, the store and
\* localStorage are kept
PageReload ==
    /\ cInitialized
    /\ cInitialized' = FALSE
    /\ cCur' = 0
    /\ cUi' = <<>>
    /\ cMid' = NoStoredSummary
    /\ cStatus' = "ready"
    /\ cSubmit' = NoSubmit
    /\ cStream' = 0
    /\ cFinish' = NoFinish
    /\ cLoaded' = FALSE
    /\ UNCHANGED <<cDb, cLast, cTurns, cPersisted, cSaves, cLastFinish, cDeleted>>
    /\ UNCHANGED <<trimVars, orchVars, shouldVars, prefVars>>

\* the init effect: the last conversation is selected, or a first one made
PageInit ==
    /\ ~cInitialized
    /\ cInitialized' = TRUE
    /\ IF cLast # 0
       THEN SelectConversation(cLast)
       ELSE /\ \E id \in FreshIds :
                 /\ cDb' = CreateConversation(cDb, id)
                 /\ cCur' = id
                 /\ cLast' = id
            /\ UNCHANGED <<cUi, cMid, cLoaded, cStatus, cSubmit, cStream, cFinish,
                           cTurns, cPersisted, cSaves, cLastFinish, cDeleted>>
            /\ UNCHANGED <<trimVars, orchVars, shouldVars, prefVars>>

ClientInit ==
    /\ cDb = [id \in ConvIds |->
                IF id = 1
                THEN Conversation(GenerateTitle(5), BaseMessages, NoStoredSummary)
                ELSE NoConversation]
    /\ cCur = 1
    /\ cUi = RestoreMessages(BaseMessages)
    /\ cMid = NoStoredSummary
    /\ cStatus = "ready"
    /\ cLast = 1
    /\ cSubmit = NoSubmit
    /\ cStream = 0
    /\ cFinish = NoFinish
    /\ cTurns = 0
    /\ cPersisted = [i \in 1..(2 * BaseTurns) |-> BaseMessages[i].parts]
    /\ cLoaded = TRUE
    /\ cSaves = <<>>
    /\ cLastFinish = NoFinishYet
    /\ cInitialized = TRUE
    /\ cDeleted = {}
    /\ TrimIdle
    /\ OrchIdle
    /\ ShouldIdle
    /\ PrefsIdle

ClientNext ==
    \/ \E input \in UserInputs : HandleSubmitStart(input)
    \/ SubmitGet
    \/ SubmitUpdate
    \/ SubmitSend
    \/ StreamStart
    \/ \E parts \in AssistantReplies, closureHasReply \in BOOLEAN :
          StreamFinish(parts, closureHasReply)
    \/ FinishGet
    \/ FinishUpdate
    \/ FinishCheck
    \/ \E out \in SummarizeOutcomes : FinishFetch(out)
    \/ FinishSave
    \/ \E id \in { c \in ConvIds : cDb[c].exists } : HandleSelectConversation(id)
    \/ HandleCreateNewConversation

SpecClient == ClientInit /\ [][ClientNext]_vars

\* ------------------------------------------------------------------------
\* The session specification: a first visit (empty store, nothing in
\* localStorage), then conversations made, selected, written to and
\* deleted, and the page loaded again.
\* ------------------------------------------------------------------------
MaxSessionTurns == 1

SessionInit ==
    /\ cDb = [id \in ConvIds |-> NoConversation]
    /\ cCur = 0
    /\ cUi = <<>>
    /\ cMid = NoStoredSummary
    /\ cStatus = "ready"
    /\ cLast = 0
    /\ cSubmit = NoSubmit
    /\ cStream = 0
    /\ cFinish = NoFinish
    /\ cTurns = 0
    /\ cPersisted = <<>>
    /\ cLoaded = FALSE
    /\ cSaves = <<>>
    /\ cLastFinish = NoFinishYet
    /\ cInitialized = FALSE
    /\ cDeleted = {}
    /\ TrimIdle
    /\ OrchIdle
    /\ ShouldIdle
    /\ PrefsIdle

SessionNext ==
    \/ PageInit
    \/ \E id \in { c \in ConvIds : cDb[c].exists } : HandleSelectConversation(id)
    \/ HandleCreateNewConversation
    \/ \E id \in ConvIds : ConfirmDelete(id)
    \/ PageReload
    \/ \E input \in UserInputs :
          /\ cInitialized
          /\ cCur # 0
          /\ cTurns < MaxSessionTurns
          /\ HandleSubmitStart(input)
    \/ SubmitGet
    \/ SubmitUpdate
    \/ SubmitSend
    \/ StreamStart
    \/ \E parts \in AssistantReplies, closureHasReply \in BOOLEAN :
          StreamFinish(parts, closureHasReply)
    \/ FinishGet
    \/ FinishUpdate
    \/ FinishCheck

SpecSession == SessionInit /\ [][SessionNext]_vars

\* ------------------------------------------------------------------------
\* The threshold specification: shouldSummarize (part_001) and the gates of
\* checkAndSummarize (part_000) on every list of ShouldLists.
\* ------------------------------------------------------------------------
MaxUserTurns == 22

RoleMsg(role) == Msg(0, role, 0, <<>>)

Repeat(role, n) == [i \in 1..n |-> RoleMsg(role)]

RECURSIVE Alternate(_, _)
Alternate(users, assistants) ==
    IF users = 0 /\ assistants = 0 THEN <<>>
    ELSE (IF users > 0 THEN <<RoleMsg("user")>> ELSE <<>>)
         \o (IF assistants > 0 THEN <<RoleMsg("assistant")>> ELSE <<>>)
         \o Alternate(IF users > 0 THEN users - 1 ELSE 0,
                      IF assistants > 0 THEN assistants - 1 ELSE 0)

Arrange(users, assistants, systems, order) ==
    CASE order = "turns" ->
            Repeat("system", systems) \o Alternate(users, assistants)
      [] order = "usersFirst" ->
            Repeat("user", users) \o Repeat("assistant", assistants)
            \o Repeat("system", systems)
      [] order = "usersLast" ->
            Repeat("system", systems) \o Repeat("assistant", assistants)
            \o Repeat("user", users)

ShouldLists ==
    { Arrange(users, assistants, systems, order) :
        users \in 0..MaxUserTurns,
        assistants \in {0, 19, 20, 25},
        systems \in {0, 2},
        order \in {"turns", "usersFirst", "usersLast"} }

ShouldInit ==
    /\ sMessages \in ShouldLists
    /\ sHasSummary \in BOOLEAN
    /\ sResult = [should |-> FALSE, passes |-> FALSE, resummarize |-> FALSE]
    /\ sPc = "input"
    /\ TrimIdle
    /\ OrchIdle
    /\ ClientIdle
    /\ PrefsIdle

ShouldStep ==
    /\ sPc = "input"
    /\ sResult' = [should |-> ShouldSummarize(sMessages),
                   passes |-> CheckPassesThreshold(sMessages),
                   resummarize |-> CheckResummarizes(sMessages, sHasSummary)]
    /\ sPc' = "done"
    /\ UNCHANGED <<sMessages, sHasSummary>>
    /\ UNCHANGED <<trimVars, orchVars, clientVars, prefVars>>

ShouldNext == ShouldStep

SpecShould == ShouldInit /\ [][ShouldNext]_vars

\* ------------------------------------------------------------------------
\* The preferences specification: pages (tabs) of one installation on one
\* empty store. Each runs its init effect, then opens the settings panel,
\* edits, saves and sends chat requests, in any order and interleaving.
\* ------------------------------------------------------------------------
\* db.preferences.get(DEFAULT_USER_ID)
StoreGet(store) ==
    IF \E row \in store : row.id = DEFAULT_USER_ID
    THEN CHOOSE row \in store : row.id = DEFAULT_USER_ID
    ELSE NoPreferences

\* db.preferences.put(row)
StorePut(store, row) == { r \in store : r.id # row.id } \cup {row}

\* db.preferences.add(row) is rejected (ConstraintError) when the key exists
StoreAddRejects(store, row) == \E r \in store : r.id = row.id

\* getLongTermMemoryString: the lines it joins, one per non-empty setting
LongTermMemoryString(prefs) ==
    (IF prefs.language # ""
     THEN <<[line |-> "language",
             value |-> IF prefs.language = "ja" THEN "nihongo" ELSE prefs.language]>>
     ELSE <<>>)
    \o (IF prefs.codingStyle # ""
        THEN <<[line |-> "codingStyle", value |-> prefs.codingStyle]>> ELSE <<>>)
    \o (IF prefs.preferredStack > 0
        THEN <<[line |-> "preferredStack", value |-> prefs.preferredStack]>> ELSE <<>>)
    \o (IF prefs.customInstructions > 0
        THEN <<[line |-> "customInstructions", value |-> prefs.customInstructions]>>
        ELSE <<>>)

\* updatePreferences: {...existing, ...updates}
MergePreferences(existing, updates) ==
    Preferences(updates.language, updates.codingStyle, updates.preferredStack,
                updates.customInstructions)

\* what the user types in the settings panel
PanelEdits == {"customInstructions"}

EditPreferences(prefs, edit) ==
    IF edit = "customInstructions" THEN [prefs EXCEPT !.customInstructions = 7]
    ELSE [prefs EXCEPT !.language = "en"]

Call(op, updates) ==
    [op |-> op, pc |-> "get", existing |-> NoPreferences, updates |-> updates]

\* the init effect of Home starts: await getLongTermMemoryString()
InitEffect(t) ==
    /\ pTab[t] = "new"
    /\ pTab' = [pTab EXCEPT ![t] = "init"]
    /\ pCall' = [pCall EXCEPT ![t] = Call("getLongTermMemoryString", NoPreferences)]
    /\ UNCHANGED <<pStore, pLtm, pPanel, pSent, pSaved, pErrors>>
    /\ UNCHANGED <<trimVars, orchVars, clientVars, shouldVars>>

\* getPreferences: await db.preferences.get(DEFAULT_USER_ID)
PreferencesGet(t) ==
    /\ pCall[t].pc = "get"
    /\ LET existing == StoreGet(pStore)
       IN pCall' = [pCall EXCEPT ![t].existing = existing,
                                 ![t].pc = IF existing # NoPreferences
                                           THEN "return" ELSE "add"]
    /\ UNCHANGED <<pStore, pTab, pLtm, pPanel, pSent, pSaved, pErrors>>
    /\ UNCHANGED <<trimVars, orchVars, clientVars, shouldVars>>

\* getPreferences: await db.preferences.add(DEFAULT_PREFERENCES); a
\* rejection goes to the caller: the catch of the init effect, the catch
\* of handleSave, nobody for the panel's load
PreferencesAdd(t) ==
    /\ pCall[t].pc = "add"
    /\ IF StoreAddRejects(pStore, DEFAULT_PREFERENCES)
       THEN /\ pErrors' = pErrors \cup {<<t, pCall[t].op>>}
            /\ pCall' = [pCall EXCEPT ![t] = NoCall]
            /\ pTab' = [pTab EXCEPT ![t] = IF pTab[t] = "init" THEN "ready" ELSE pTab[t]]
            /\ UNCHANGED pStore
       ELSE /\ pStore' = pStore \cup {DEFAULT_PREFERENCES}
            /\ pCall' = [pCall EXCEPT ![t].existing = DEFAULT_PREFERENCES,
                                      ![t].pc = "return"]
            /\ UNCHANGED <<pTab, pErrors>>
    /\ UNCHANGED <<pLtm, pPanel, pSent, pSaved>>
    /\ UNCHANGED <<trimVars, orchVars, clientVars, shouldVars>>

\* getPreferences has returned: the rest of its caller
PreferencesReturn(t) ==
    /\ pCall[t].pc = "return"
    /\ CASE pCall[t].op = "getLongTermMemoryString" ->
             /\ pLtm' = [pLtm EXCEPT ![t] = LongTermMemoryString(pCall[t].existing)]
             /\ pTab' = [pTab EXCEPT ![t] = "ready"]
             /\ pCall' = [pCall EXCEPT ![t] = NoCall]
             /\ UNCHANGED pPanel
         [] pCall[t].op = "getPreferences" ->
             /\ pPanel' = [pPanel EXCEPT ![t] = pCall[t].existing]
             /\ pCall' = [pCall EXCEPT ![t] = NoCall]
             /\ UNCHANGED <<pLtm, pTab>>
         [] pCall[t].op = "updatePreferences" ->
             /\ pCall' = [pCall EXCEPT ![t].pc = "put"]
             /\ UNCHANGED <<pLtm, pTab, pPanel>>
    /\ UNCHANGED <<pStore, pSent, pSaved, pErrors>>
    /\ UNCHANGED <<trimVars, orchVars, clientVars, shouldVars>>

\* updatePreferences: await db.preferences.put(updated)
PreferencesPut(t) ==
    /\ pCall[t].pc = "put"
    /\ LET updated == MergePreferences(pCall[t].existing, pCall[t].updates)
       IN /\ pStore' = StorePut(pStore, updated)
          /\ pSaved' = [pSaved EXCEPT ![t] = pSaved[t] \/ updated # pCall[t].existing]
    /\ pCall' = [pCall EXCEPT ![t] = NoCall]
    /\ UNCHANGED <<pTab, pLtm, pPanel, pSent, pErrors>>
    /\ UNCHANGED <<trimVars, orchVars, clientVars, shouldVars>>

\* the settings panel is opened: getPreferences().then(setPreferences)
PanelOpen(t) ==
    /\ pTab[t] = "ready"
    /\ pCall[t] = NoCall
    /\ pCall' = [pCall EXCEPT ![t] = Call("getPreferences", NoPreferences)]
    /\ UNCHANGED <<pStore, pTab, pLtm, pPanel, pSent, pSaved, pErrors>>
    /\ UNCHANGED <<trimVars, orchVars, clientVars, shouldVars>>

\* the user changes a field of the panel
PanelEdit(t, edit) ==
    /\ pPanel[t] # NoPreferences
    /\ pPanel' = [pPanel EXCEPT ![t] = EditPreferences(pPanel[t], edit)]
    /\ UNCHANGED <<pStore, pTab, pCall, pLtm, pSent, pSaved, pErrors>>
    /\ UNCHANGED <<trimVars, orchVars, clientVars, shouldVars>>

\* handleSave of the settings panel
HandleSave(t) ==
    /\ pPanel[t] # NoPreferences
    /\ pCall[t] = NoCall
    /\ pCall' = [pCall EXCEPT ![t] = Call("updatePreferences", pPanel[t])]
    /\ UNCHANGED <<pStore, pTab, pLtm, pPanel, pSent, pSaved, pErrors>>
    /\ UNCHANGED <<trimVars, orchVars, clientVars, shouldVars>>

\* sendMessage: the request carries longTermMemory, the state of Home
SendRequest(t) ==
    /\ pTab[t] = "ready"
    /\ pSent' = [pSent EXCEPT ![t] = [sent |-> TRUE, longTermMemory |-> pLtm[t],
                                      stored |-> pStore, afterSave |-> pSaved[t]]]
    /\ UNCHANGED <<pStore, pTab, pCall, pLtm, pPanel, pSaved, pErrors>>
    /\ UNCHANGED <<trimVars, orchVars, clientVars, shouldVars>>

PrefsInit ==
    /\ pStore = {}
    /\ pTab = [t \in Tabs |-> "new"]
    /\ pCall = [t \in Tabs |-> NoCall]
    /\ pLtm = [t \in Tabs |-> <<>>]
    /\ pPanel = [t \in Tabs |-> NoPreferences]
    /\ pSent = [t \in Tabs |-> NoRequest]
    /\ pSaved = [t \in Tabs |-> FALSE]
    /\ pErrors = {}
    /\ TrimIdle
    /\ OrchIdle
    /\ ClientIdle
    /\ ShouldIdle

PrefsNext ==
    \E t \in Tabs :
        \/ InitEffect(t)
        \/ PreferencesGet(t)
        \/ PreferencesAdd(t)
        \/ PreferencesReturn(t)
        \/ PreferencesPut(t)
        \/ PanelOpen(t)
        \/ \E edit \in PanelEdits : PanelEdit(t, edit)
        \/ HandleSave(t)
        \/ SendRequest(t)

SpecPrefs == PrefsInit /\ [][PrefsNext]_vars

\* ------------------------------------------------------------------------
\* C1: for every non-empty history and every budget (zero and negative
\* ones included) the trimmed messages are a contiguous suffix of the
\* history, in the original order, and include the most recent message.
\* ------------------------------------------------------------------------
IsSuffixOf(s, t) ==
    /\ Len(s) <= Len(t)
    /\ s = SubSeq(t, Len(t) - Len(s) + 1, Len(t))

C1_TrimIsSuffixWithLast ==
    tPc = "done" =>
        /\ Len(tResult) >= 1
        /\ IsSuffixOf(tResult, tMessages)
        /\ tResult[Len(tResult)] = tMessages[Len(tMessages)]

\* the newest message alone exceeds a negative or zero budget, and is kept
C1_Witness ==
    /\ tPc = "done"
    /\ AvailableChars(tPromptLen) <= 0
    /\ Len(tMessages) = 3
    /\ EstimateMessageChars(<<tMessages[3]>>) > 0
    /\ tResult = <<tMessages[3]>>

\* ------------------------------------------------------------------------
\* Reading the log of provider calls
\* ------------------------------------------------------------------------
IsEv(j, ev) == j \in 1..Len(oLog) /\ oLog[j].ev = ev
MainsBefore(j) == Cardinality({ k \in 1..(j - 1) : oLog[k].ev = "main" })
CountEv(ev) == Cardinality({ k \in 1..Len(oLog) : oLog[k].ev = ev })
MainOuts == [ k \in 1..CountEv("main") |->
                oLog[CHOOSE j \in 1..Len(oLog) :
                        oLog[j].ev = "main" /\ MainsBefore(j) = k - 1].out ]
SleepMs == [ k \in 1..CountEv("sleep") |->
                oLog[CHOOSE j \in 1..Len(oLog) :
                        /\ oLog[j].ev = "sleep"
                        /\ Cardinality({ i \in 1..(j - 1) : oLog[i].ev = "sleep" }) = k - 1].ms ]
Retryable503 == Thrown(TRUE, "503")
NonRetryableOuts == { Thrown(TRUE, "401"), Thrown(FALSE, "429") }
OrchOver == oPc \in {"returned", "threw", "responded"}

\* ------------------------------------------------------------------------
\* C2: when the main generation call fails with a retryable error k times
\* (k = 1 or 2) and then succeeds, orchestrate returns the stream of that
\* successful call and not the fallback's, the call was made k+1 times, and
\* the delay before retry i+1 is 1000 * 2^i ms (1000, then 2000). Step by
\* step: a retryable failure of attempt i < 2 is followed by a sleep of
\* 1000 * 2^i and then by the next main call, and a successful main call is
\* the last provider call of the run.
\* ------------------------------------------------------------------------
C2_RetryThenSuccess ==
    /\ \A j \in 1..Len(oLog) : oLog[j].ev = "main" =>
          LET i == MainsBefore(j) IN
          /\ oLog[j].out.ok =>
                /\ j = Len(oLog)
                /\ oPc \in {"returned", "responded"}
                /\ oResult = "main"
          /\ (oLog[j].out = Retryable503 /\ i < 2) =>
                \/ j = Len(oLog) /\ oPc = "sleep"
                \/ /\ IsEv(j + 1, "sleep")
                   /\ oLog[j + 1].ms = 1000 * (2 ^ i)
                   /\ \/ j + 1 = Len(oLog) /\ oPc = "main"
                      \/ IsEv(j + 2, "main")
    /\ \A k \in {1, 2} :
          (/\ OrchOver
           /\ MainOuts = [n \in 1..(k + 1) |-> IF n <= k THEN Retryable503 ELSE OkOut])
          => /\ oResult = "main"
             /\ CountEv("main") = k + 1
             /\ CountEv("fallback") = 0
             /\ SleepMs = [n \in 1..k |-> 1000 * (2 ^ (n - 1))]

\* two retryable failures, then the third call succeeds and is answered 200
C2_Witness ==
    /\ oPc = "responded"
    /\ oStatus = 200
    /\ MainOuts = <<Retryable503, Retryable503, OkOut>>
    /\ SleepMs = <<1000, 2000>>
    /\ oResult = "main"

\* ------------------------------------------------------------------------
\* C3: a main generation attempt that fails with a non-retryable error ends
\* the retry loop at once: the next provider event is the fallback call, with
\* no sleep and no further main attempt in between or after (so that a
\* non-retryable error on the first attempt leaves exactly one main call).
\* ------------------------------------------------------------------------
C3_NonRetryableStops ==
    \A j \in 1..Len(oLog) :
        (oLog[j].ev = "main" /\ oLog[j].out \in NonRetryableOuts) =>
            /\ \/ j = Len(oLog) /\ oPc = "fallback"
               \/ IsEv(j + 1, "fallback")
            /\ \A k \in (j + 1)..Len(oLog) : oLog[k].ev \notin {"main", "sleep"}
            /\ CountEv("main") = MainsBefore(j) + 1

\* the first attempt throws a non-retryable error; the fallback follows
C3_Witness ==
    /\ oPc = "responded"
    /\ Len(oLog) >= 2
    /\ oLog[Len(oLog) - 1].ev = "main"
    /\ oLog[Len(oLog) - 1].out = Thrown(TRUE, "401")
    /\ CountEv("main") = 1
    /\ oLog[Len(oLog)].ev = "fallback"

\* ------------------------------------------------------------------------
\* C4: the main generation call is attempted at most 3 times in a run; when
\* all 3 attempts fail with retryable errors, no delay follows the third
\* failure and exactly one fallback call is made, with tools disabled,
\* thinking level minimal, output cap 16384 and the error-recovery block
\* appended; a fallback call that succeeds is returned as a normal result
\* (status 200).
\* ------------------------------------------------------------------------
C4_ThreeAttemptsThenFallback ==
    /\ CountEv("main") <= 3
    /\ CountEv("fallback") <= 1
    /\ MainOuts = <<Retryable503, Retryable503, Retryable503>> =>
          /\ CountEv("sleep") = 2
          /\ oPc = "fallback" \/ CountEv("fallback") = 1
          /\ \A j \in 1..Len(oLog) : oLog[j].ev = "fallback" =>
                /\ j = Len(oLog)
                /\ oLog[j - 1].ev = "main"
                /\ ~oLog[j].params.tools
                /\ oLog[j].params.thinking = "minimal"
                /\ oLog[j].params.maxTokens = 16384
                /\ oLog[j].params.recovery
                /\ oLog[j].out.ok =>
                      /\ oResult = "fallback"
                      /\ oPc \in {"returned", "responded"}
                      /\ oPc = "responded" => oStatus = 200

\* three retryable failures, the fallback succeeds and is answered 200
C4_Witness ==
    /\ oPc = "responded"
    /\ oStatus = 200
    /\ MainOuts = <<Retryable503, Retryable503, Retryable503>>
    /\ oResult = "fallback"
    /\ oLog[Len(oLog)].ev = "fallback"

\* ------------------------------------------------------------------------
\* C5: orchestrate raises an error to its caller (and the endpoint answers
\* 500) only when the fallback generation call itself has thrown.
\* ------------------------------------------------------------------------
C5_ErrorOnlyFromFallback ==
    (oPc = "threw" \/ oStatus = 500) =>
        /\ Len(oLog) >= 1
        /\ oLog[Len(oLog)].ev = "fallback"
        /\ ~oLog[Len(oLog)].out.ok

\* ------------------------------------------------------------------------
\* C6: for a request in which an attachment is present (an image part, a
\* file part or a text part with the attachment marker, in any message),
\* whatever the mode, the research planner is never invoked and the result
\* carries no research plan.
\* ------------------------------------------------------------------------
BodyHasAttachment ==
    /\ oBody.json
    /\ \E i \in 1..Len(oBody.messages) :
          \E k \in 1..Len(oBody.messages[i].parts) :
              LET p == oBody.messages[i].parts[k]
              IN p.type \in {"image", "file"} \/ (p.type = "text" /\ p.marker)

C6_NoPlanWithAttachment ==
    BodyHasAttachment =>
        /\ CountEv("plan") = 0
        /\ ~oPlan.present
        /\ oPc \notin {"plan", "planSleep"}

\* an explicit research request with a file attached has been answered
C6_Witness ==
    /\ BodyHasAttachment
    /\ oBody.mode = "research"
    /\ oMode = "research"
    /\ oPc = "responded"
    /\ oStatus = 200
    /\ oResult = "main"

\* ------------------------------------------------------------------------
\* C7 as stated: when onFinish has run for a conversation that then has
\* exactly 20 user turns and had no summary, and the summarize endpoint did
\* not fail or answer with an empty currentState, a summary of all messages
\* but the last 20 turns is stored on the conversation, with a non-empty
\* currentState.
\* ------------------------------------------------------------------------
EndpointServed ==
    /\ cLastFinish.resp \notin {"throws", "network"}
    /\ cLastFinish.saved => cDb[cLastFinish.conv].summary.currentState # ""

C7_SummaryStoredAtThreshold ==
    (/\ cLastFinish.turns = SUMMARY_THRESHOLD
     /\ ~cLastFinish.prior
     /\ EndpointServed)
    => /\ cLastFinish.asked
       /\ cLastFinish.saved
       /\ cDb[cLastFinish.conv].summary.present
       /\ cDb[cLastFinish.conv].summary.currentState # ""

\* ------------------------------------------------------------------------
\* C7, amended: when onFinish has run for a conversation that then has
\* exactly 20 user turns and had no summary, shouldSummarize was true and
\* the summary step took exactly the entries of its message list before the
\* last 2 * SHORT_TERM_TURNS: with no such entry (a list of 40) it asked
\* for no summary and stored none; otherwise it asked for a summary of
\* those entries and stored the answer if and only if the endpoint
\* answered 200. Every summary stored, at any turn count, is one of the
\* entries before the last 40 of a list that held at least 20 user turns.
\* ------------------------------------------------------------------------
C7_SummaryOnlyOfOlderMessages ==
    /\ (cLastFinish.turns = SUMMARY_THRESHOLD /\ ~cLastFinish.prior)
       => /\ cLastFinish.asked
          /\ cLastFinish.len <= 2 * SHORT_TERM_TURNS
             => /\ cLastFinish.resp = "none"
                /\ ~cLastFinish.saved
                /\ ~cDb[cLastFinish.conv].summary.present
          /\ cLastFinish.len > 2 * SHORT_TERM_TURNS
             => /\ cLastFinish.resp \in {"object", "throws", "network"}
                /\ cLastFinish.saved <=> cLastFinish.resp = "object"
                /\ cLastFinish.saved
                   => cDb[cLastFinish.conv].summary.from
                        = cLastFinish.len - 2 * SHORT_TERM_TURNS
    /\ cFinish.pc \in {"fetch", "save"}
       => /\ cFinish.summary.from = cFinish.len - 2 * SHORT_TERM_TURNS
          /\ cFinish.summary.from > 0
    /\ \A i \in DOMAIN cSaves :
          /\ cSaves[i].turns >= SUMMARY_THRESHOLD
          /\ cSaves[i].summary.from = cSaves[i].len - 2 * SHORT_TERM_TURNS
          /\ cSaves[i].summary.from > 0

\* onFinish has run at exactly 20 user turns, each answered once, on a list
\* of 40 entries, for a conversation without a summary
C7_Witness ==
    /\ cLastFinish.turns = SUMMARY_THRESHOLD
    /\ cLastFinish.len = 2 * SHORT_TERM_TURNS
    /\ ~cLastFinish.prior
    /\ cLastFinish.asked
    /\ Len(cDb[cLastFinish.conv].messages) = 2 * SUMMARY_THRESHOLD

\* ------------------------------------------------------------------------
\* C8: shouldSummarize is true exactly when at least 20 of the messages
\* have role user (false at 19, true at 20), whatever the number and the
\* position of the assistant and system messages; the threshold gate of
\* checkAndSummarize passes for the same lists.
\* ------------------------------------------------------------------------
RECURSIVE CountRole(_, _)
CountRole(messages, role) ==
    IF messages = <<>> THEN 0
    ELSE (IF Head(messages).role = role THEN 1 ELSE 0)
         + CountRole(Tail(messages), role)

C8_ShouldSummarizeIffTwentyUserTurns ==
    sPc = "done"
    => /\ sResult.should <=> CountRole(sMessages, "user") >= 20
       /\ sResult.passes <=> CountRole(sMessages, "user") >= 20
       /\ CountRole(sMessages, "user") = 19 => ~sResult.should
       /\ CountRole(sMessages, "user") = 20 => sResult.should

\* exactly 20 user messages among 25 assistant and 2 system messages
C8_Witness ==
    /\ sPc = "done"
    /\ CountRole(sMessages, "user") = 20
    /\ CountRole(sMessages, "assistant") = 25
    /\ CountRole(sMessages, "system") = 2
    /\ sResult.should

\* ------------------------------------------------------------------------
\* C9 as stated, in its weakest reading: once a summary is stored for a
\* conversation, the next summary stored for it comes at least two user
\* turns later (not on the very next turn), and no summary is stored
\* before the conversation has 20 user turns.
\* ------------------------------------------------------------------------
C9_RegeneratedOnlyAfterFurtherTurns ==
    \A i, j \in DOMAIN cSaves :
        /\ cSaves[i].turns >= SUMMARY_THRESHOLD
        /\ (i < j /\ cSaves[i].conv = cSaves[j].conv)
           => cSaves[j].turns - cSaves[i].turns >= 2

\* ------------------------------------------------------------------------
\* C10: after handleSelectConversation, every restored message that was
\* handed to addMessage with non-empty parts shows exactly those parts: the
\* same parts in the same order, every field of each kept, whatever the
\* part's type.
\* ------------------------------------------------------------------------
C10_RestoredPartsArePersistedParts ==
    cLoaded
    => \A i \in DOMAIN cUi :
          /\ cUi[i].id \in DOMAIN cPersisted
          /\ cPersisted[cUi[i].id] # <<>>
             => cUi[i].parts = cPersisted[cUi[i].id]

\* a message saved in this session with a tool-call / tool-result pair and
\* a part of no known kind has been reloaded
C10_Witness ==
    /\ cLoaded
    /\ \E i \in DOMAIN cUi :
          /\ cUi[i].id > 2 * BaseTurns
          /\ cUi[i].role = "assistant"
          /\ cUi[i].parts = <<ToolCallPart, ToolResultPart, SourceUrlPart, TextPart(7)>>
          /\ cPersisted[cUi[i].id] = cUi[i].parts

\* ------------------------------------------------------------------------
\* C11: a parsed request body with more than 100 messages, or with a role,
\* mode or thinking level outside the schema's enums, or with a long-term
\* memory of more than 10000 characters, is answered with status 400 and
\* the schema's issue list, and no provider call is made for it.
\* ------------------------------------------------------------------------
BodyBreaksSchema ==
    \/ Len(oBody.messages) > 100
    \/ \E i \in DOMAIN oBody.messages :
          oBody.messages[i].role \notin {"user", "assistant", "system"}
    \/ oBody.mode \notin {"absent", "auto", "general", "research", "coding"}
    \/ oBody.thinkingLevel \notin {"absent", "minimal", "low", "medium", "high"}
    \/ oBody.longTermMemory > 10000

C11_InvalidBodyRejectedBeforeAnyCall ==
    (oPc # "recv" /\ oBody.json /\ BodyBreaksSchema)
    => /\ oPc = "responded"
       /\ oStatus = 400
       /\ oResult = "issues"
       /\ oLog = <<>>

\* the body of 101 messages has been answered
C11_Witness ==
    /\ oPc = "responded"
    /\ oBody.json
    /\ Len(oBody.messages) = 101
    /\ oStatus = 400
    /\ oLog = <<>>

\* ------------------------------------------------------------------------
\* C12 as stated: in auto-detect the AI classifier is called only when the
\* quick mode is general and needsSearchQuick is true, and when the quick
\* mode is coding or research that mode is the resolved mode and no
\* classification call is made.
\* ------------------------------------------------------------------------
AutoDetect == oBody.json /\ oBody.mode \in {"absent", "auto"}
Resolved == oPc \notin {"idle", "recv", "intent"} /\ oStatus # 400
QuickMode == DetectModeQuick(LastUserContent(oMessages))
QuickSearch == NeedsSearchQuick(LastUserContent(oMessages))
IntentCalled == oPc = "intent" \/ CountEv("intent") > 0

C12_QuickModeTrusted ==
    (AutoDetect /\ oStatus # 400)
    => /\ IntentCalled => (QuickMode = "general" /\ QuickSearch)
       /\ (Resolved /\ QuickMode \in {"coding", "research"})
          => (oMode = QuickMode /\ ~IntentCalled)

\* ------------------------------------------------------------------------
\* C12, amended: in auto-detect the AI classifier is called only when no
\* attachment is present, the quick mode is general and needsSearchQuick
\* is true; when the quick mode is coding or research no classification
\* call is made, and that mode is the resolved mode if no attachment is
\* present (with an attachment the attachment adjustment decides the mode).
\* ------------------------------------------------------------------------
C12_QuickModeTrustedWithoutAttachment ==
    (AutoDetect /\ oStatus # 400)
    => /\ IntentCalled
          => (QuickMode = "general" /\ QuickSearch /\ ~oAtt.hasAttachments)
       /\ QuickMode \in {"coding", "research"} => ~IntentCalled
       /\ (Resolved /\ QuickMode \in {"coding", "research"}
           /\ ~oAtt.hasAttachments)
          => oMode = QuickMode

\* a research question that may need a search, without attachment, has
\* been resolved to research without a classification call
C12_Witness ==
    /\ AutoDetect
    /\ Resolved
    /\ QuickMode = "research"
    /\ QuickSearch
    /\ ~oAtt.hasAttachments
    /\ oMode = "research"
    /\ CountEv("main") > 0
    /\ CountEv("intent") = 0

\* ------------------------------------------------------------------------
\* C13: in auto-detect with an attachment present the resolved mode and
\* thinking level are (coding, high) when a code attachment is present and
\* the quick mode is coding, (general, medium) when the quick mode is
\* research, and (quick mode, medium) in every other case, image-only
\* attachments included.
\* ------------------------------------------------------------------------
C13_AttachmentAdjustmentTable ==
    (AutoDetect /\ Resolved /\ oAtt.hasAttachments)
    => <<oMode, oLevel>> =
          IF oAtt.hasCodeAttachment /\ QuickMode = "coding"
          THEN <<"coding", "high">>
          ELSE IF QuickMode = "research"
          THEN <<"general", "medium">>
          ELSE <<QuickMode, "medium">>

\* an image-only attachment under a coding question: (coding, medium)
C13_Witness ==
    /\ AutoDetect
    /\ Resolved
    /\ oAtt.hasImageAttachment
    /\ ~oAtt.hasTextAttachment
    /\ QuickMode = "coding"
    /\ oMode = "coding"
    /\ oLevel = "medium"

\* ------------------------------------------------------------------------
\* C14: the step ceiling of every main generation call is 3 when an
\* attachment is present or the resolved mode is general, 10 when the
\* resolved mode is research without attachment, 5 when it is coding
\* without attachment.
\* ------------------------------------------------------------------------
C14_StepCeiling ==
    \A j \in 1..Len(oLog) :
        oLog[j].ev = "main"
        => oLog[j].params.maxSteps =
              IF oAtt.hasAttachments \/ oMode = "general" THEN 3
              ELSE IF oMode = "research" THEN 10
              ELSE 5

\* a main call in research mode with an attachment: ceiling 3
C14_Witness ==
    /\ CountEv("main") > 0
    /\ oMode = "research"
    /\ oAtt.hasAttachments
    /\ oLog[Len(oLog)].ev = "main"
    /\ oLog[Len(oLog)].params.maxSteps = 3

\* ------------------------------------------------------------------------
\* C15: every research plan that the planner hands to orchestrate, and
\* that orchestrate injects into the system prompt and returns, contains
\* at most 5 search queries.
\* ------------------------------------------------------------------------
C15_PlanHasAtMostFiveQueries ==
    oPlan.present => oPlan.queries <= 5

\* ------------------------------------------------------------------------
\* C16: the research planner makes at most 2 attempts, the second only
\* after a retryable error and a backoff delay of 1000 ms; when planning
\* finally fails orchestrate goes on in research mode without a plan and
\* its main generation calls carry the step ceiling 10: the planner's
\* failure is never what makes orchestrate throw.
\* ------------------------------------------------------------------------
PlanEvents == { j \in 1..Len(oLog) : oLog[j].ev = "plan" }
PlanningOver == PlanEvents # {} /\ oPc \notin {"plan", "planSleep"}
PlanningFailed ==
    PlanningOver /\ \A j \in PlanEvents : ~oLog[j].out.ok

IntentFailed ==
    \E j \in 1..Len(oLog) : oLog[j].ev = "intent" /\ ~oLog[j].out.ok

C17_FailedIntentResolvesToGeneralMedium ==
    IntentFailed
    => /\ oMode = "general"
       /\ oLevel = "medium"
       /\ CountEv("plan") = 0
       /\ oPc \notin {"plan", "planSleep"}
       /\ \A k \in 1..Len(oLog) :
             oLog[k].ev = "main" => /\ oLog[k].params.thinking = "medium"
                                    /\ oLog[k].params.maxSteps = 3
       /\ oPc = "threw"
          => \/ BuildSystemPromptThrows(oBody.midTermSummary)
             \/ CountEv("fallback") > 0

\* the classifier failed and the main call was then made as general/medium
C17_Witness ==
    /\ IntentFailed
    /\ oMode = "general"
    /\ oLevel = "medium"
    /\ oResult = "main"
    /\ oPc = "returned"

\* ------------------------------------------------------------------------
\* C18: when the summarization call fails (the summarize endpoint answers
\* a non-OK status because its generation threw, or the request itself
\* throws), generateAndSaveSummary ends without saving and the summary
\* stored on the conversation is exactly the one stored before the call.
\* ------------------------------------------------------------------------
SummarizeFailed == cLastFinish.resp \in {"throws", "network"}

C18_FailedSummaryLeavesStoredSummary ==
    SummarizeFailed
    => /\ ~cLastFinish.saved
       /\ cDb[cLastFinish.conv].summary = cLastFinish.before

\* the endpoint answered 500 while a summary was already stored, and that
\* summary is still the stored one
C18_Witness ==
    /\ cLastFinish.resp = "throws"
    /\ cLastFinish.before.present
    /\ cLastFinish.before.currentState = "state"
    /\ cDb[cLastFinish.conv].summary = cLastFinish.before

\* ------------------------------------------------------------------------
\* C19: cancelling the stream after orchestrate has returned its handle
\* never leads to another main generation attempt, a backoff delay or the
\* fallback call for that request, and the outcome of the request stays
\* the stream that was returned.
\* ------------------------------------------------------------------------
C19_AbortIsNotAProviderFailure ==
    oAbortedAt # 0
    => /\ Len(oLog) = oAbortedAt
       /\ oAttempt = MainsBefore(oAbortedAt + 1) - 1
       /\ oPc \in {"returned", "responded"}
       /\ oResult = IF oLog[oAbortedAt].ev = "fallback" THEN "fallback" ELSE "main"
       /\ oPc = "responded" => oStatus = 200

\* the stream of a second main attempt was cancelled after the response
\* had been handed out
C19_Witness ==
    /\ oAbortedAt # 0
    /\ CountEv("main") = 2
    /\ CountEv("sleep") = 1
    /\ oPc = "responded"
    /\ oResult = "main"

\* ------------------------------------------------------------------------
\* C20: once the client has initialised, and after any sequence of
\* new-conversation, select-conversation, delete-conversation and
\* page-reload events, the active conversation is defined and is a
\* conversation that exists in the store.
\* ------------------------------------------------------------------------
C20_ActiveConversationExists ==
    cInitialized => (cCur \in ConvIds /\ cDb[cCur].exists)

\* ------------------------------------------------------------------------
\* C21: with an explicit mode general, research or coding no classifier
\* result is used and the resolved mode is the explicit mode; with mode
\* auto or absent the classification determines the resolved mode: the
\* attachment adjustment of the quick mode when an attachment is present,
\* the AI classifier's answer (general when it failed) when it was called,
\* the quick mode otherwise.
\* ------------------------------------------------------------------------
ExplicitRequest == oBody.json /\ oBody.mode \in Modes
IntentEvents == { j \in 1..Len(oLog) : oLog[j].ev = "intent" }
IntentAnswer == oLog[CHOOSE j \in IntentEvents : TRUE].out

C21_ExplicitModeWins ==
    /\ (ExplicitRequest /\ Resolved)
       => /\ oMode = oBody.mode
          /\ IntentEvents = {}
    /\ ExplicitRequest => oPc # "intent"
    /\ (AutoDetect /\ Resolved)
       => oMode =
            IF oAtt.hasAttachments
            THEN AdjustModeForAttachments(QuickMode, oAtt.hasTextAttachment,
                     oAtt.hasImageAttachment, oAtt.hasCodeAttachment).mode
            ELSE IF IntentEvents # {}
            THEN (IF IntentAnswer.ok THEN IntentAnswer.val.mode ELSE "general")
            ELSE QuickMode

\* an explicit research request over a coding question with a code
\* attachment has reached its main call in research mode
C21_Witness ==
    /\ ExplicitRequest
    /\ oBody.mode = "research"
    /\ QuickMode = "coding"
    /\ oAtt.hasCodeAttachment
    /\ oMode = "research"
    /\ CountEv("main") > 0

\* ------------------------------------------------------------------------
\* C30: in auto-detect the resolved thinking level is a function of the
\* classification and the attachments alone, whatever thinkingLevel the
\* client supplied, and every main call carries it; the supplied level
\* (medium when none is supplied) is the resolved one only under an
\* explicit mode.
\* ------------------------------------------------------------------------
ClassifiedLevel ==
    IF oAtt.hasAttachments
    THEN (IF oAtt.hasCodeAttachment /\ QuickMode = "coding" THEN "high" ELSE "medium")
    ELSE IF IntentEvents # {}
    THEN (IF IntentAnswer.ok THEN IntentAnswer.val.thinkingLevel ELSE "medium")
    ELSE IF QuickMode \in {"research", "coding"} THEN "high" ELSE "medium"

C30_SuppliedLevelIgnoredInAutoDetect ==
    /\ (AutoDetect /\ Resolved)
       => /\ oLevel = ClassifiedLevel
          /\ \A j \in 1..Len(oLog) :
                oLog[j].ev = "main" => oLog[j].params.thinking = ClassifiedLevel
    /\ (ExplicitRequest /\ Resolved)
       => oLevel = IF oBody.thinkingLevel = "absent" THEN "medium"
                   ELSE oBody.thinkingLevel

\* a request that supplied the level low and no mode, over a plain
\* question, has made its main call at level medium
C30_Witness ==
    /\ AutoDetect
    /\ oBody.thinkingLevel = "low"
    /\ ~oAtt.hasAttachments
    /\ QuickMode = "general"
    /\ IntentEvents = {}
    /\ oLevel = "medium"
    /\ CountEv("main") > 0
    /\ oLog[Len(oLog)].params.thinking = "medium"

\* ------------------------------------------------------------------------
\* C22: the system prompt sent to the generation call is made of the
\* blocks persona/base, tool-usage policy, mode instructions, then the
\* user-preferences block (only with a non-empty long-term memory), then
\* the conversation-context block (only with a summary), in that order,
\* and the memory blocks come last in the prompt.
\* ------------------------------------------------------------------------
MemoryBlocks == {"ltm", "summary"}

C22_PromptOrderMemoryLast ==
    oPrompt # <<>>
    => /\ Len(oPrompt) >= 3
       /\ SubSeq(oPrompt, 1, 3) = <<"base", "tools", oMode>>
       /\ (\E i \in DOMAIN oPrompt : oPrompt[i] = "ltm") <=> oBody.longTermMemory > 0
       /\ (\E i \in DOMAIN oPrompt : oPrompt[i] = "summary")
          <=> oBody.midTermSummary.present
       /\ \A i, k \in DOMAIN oPrompt :
             (oPrompt[i] = "summary" /\ oPrompt[k] = "ltm") => k < i
       /\ \A i, k \in DOMAIN oPrompt :
             (oPrompt[i] \in MemoryBlocks /\ i < k) => oPrompt[k] \in MemoryBlocks

\* ------------------------------------------------------------------------
\* C23: with budget = 400000 - (system prompt length) - 10000, the trimmed
\* result is the newest message alone when that message exceeds the
\* budget, and otherwise the longest suffix of the history whose estimated
\* character total does not exceed the budget: the message just before
\* the kept suffix, if there is one, would push the total over it.
\* ------------------------------------------------------------------------
TrimBudget == MAX_CONTEXT_CHARS - tPromptLen - SYSTEM_PROMPT_RESERVE

C23_LongestSuffixWithinBudget ==
    tPc = "done" =>
        LET n == Len(tMessages)
            k == Len(tResult)
        IN /\ IsSuffixOf(tResult, tMessages)
           /\ IF EstimateMessageChars(<<tMessages[n]>>) > TrimBudget
              THEN tResult = <<tMessages[n]>>
              ELSE /\ EstimateMessageChars(tResult) <= TrimBudget
                   /\ k < n
                      => EstimateMessageChars(SubSeq(tMessages, n - k, n)) > TrimBudget

\* two of three messages fit the budget, the oldest would exceed it
C23_Witness ==
    /\ tPc = "done"
    /\ Len(tMessages) = 3
    /\ Len(tResult) = 2
    /\ EstimateMessageChars(tResult) = TrimBudget
    /\ EstimateMessageChars(<<tMessages[1]>>) > 0

\* ------------------------------------------------------------------------
\* C24: the attachment-present flag is computed over every message of the
\* untrimmed history: if any message, however old and even when trimming
\* removes it, has an image part, a file part or a text part with the
\* attachment marker, the attachment-handling block is appended, the step
\* ceiling is 3 and the planner is skipped; if no message has such a part
\* the request is not handled as attachment-present.
\* ------------------------------------------------------------------------
Classified == oPc \notin {"idle", "recv"} /\ oStatus # 400
PartIsAttachment(p) == p.type \in {"image", "file"} \/ (p.type = "text" /\ p.marker)
HasAttachmentIn(messages) ==
    \E i \in DOMAIN messages :
        \E k \in DOMAIN messages[i].parts : PartIsAttachment(messages[i].parts[k])

C24_AttachmentFlagOverWholeHistory ==
    Classified
    => /\ oAtt.hasAttachments <=> HasAttachmentIn(oBody.messages)
       /\ oPrompt # <<>>
          => ((\E i \in DOMAIN oPrompt : oPrompt[i] = "attach")
              <=> HasAttachmentIn(oBody.messages))
       /\ HasAttachmentIn(oBody.messages)
          => /\ CountEv("plan") = 0
             /\ oPc \notin {"plan", "planSleep"}
             /\ ~oPlan.present
             /\ \A j \in 1..Len(oLog) :
                   oLog[j].ev = "main" => oLog[j].params.maxSteps = 3

\* the only attachment is in an old message that trimming removed; the
\* research request still went without plan, with the block and ceiling 3
C24_Witness ==
    /\ Classified
    /\ oMode = "research"
    /\ oTrimmed # <<>>
    /\ Len(oTrimmed) < Len(oMessages)
    /\ ~HasAttachmentIn(oTrimmed)
    /\ HasAttachmentIn(oBody.messages)
    /\ \E i \in DOMAIN oPrompt : oPrompt[i] = "attach"
    /\ CountEv("plan") = 0
    /\ CountEv("main") > 0
    /\ oLog[Len(oLog)].params.maxSteps = 3

\* ------------------------------------------------------------------------
\* C25: for every interleaving of concurrent first reads on an empty
\* store, each preferences call completes without error and the store
\* ends with exactly one preferences row, under the well-known id.
\* ------------------------------------------------------------------------
C25_ConcurrentFirstReadsSucceed ==
    /\ pErrors = {}
    /\ Cardinality(pStore) <= 1
    /\ \A row \in pStore : row.id = DEFAULT_USER_ID
    /\ (\E t \in DOMAIN pTab : pTab[t] = "ready") => Cardinality(pStore) = 1

\* ------------------------------------------------------------------------
\* C29: after the user has saved changed preferences, the longTermMemory
\* carried by the next chat request is the long-term-memory string of the
\* preferences stored when the request is sent.
\* ------------------------------------------------------------------------
C29_RequestCarriesStoredPreferences ==
    \A t \in DOMAIN pSent :
        (pSent[t].sent /\ pSent[t].afterSave)
        => pSent[t].longTermMemory = LongTermMemoryString(StoreGet(pSent[t].stored))


\* ------------------------------------------------------------------------
\* C26: a conversation's title is derived from its first user message, cut
\* to at most 30 characters, and later messages never change it.  As a
\* state predicate: a stored conversation keeps the default title until it
\* holds a user message, and from then on its title is the one generated
\* from the text of its first user message and is at most TITLE_MAX long.
\* ------------------------------------------------------------------------
FirstUserMessage(messages) ==
    messages[CHOOSE i \in 1..Len(messages) :
                /\ messages[i].role = "user"
                /\ \A j \in 1..(i - 1) : messages[j].role # "user"]

C26_TitleIsFirstUserMessageCutToThirty ==
    \A c \in ConvIds :
        cDb[c].exists =>
            IF UserTurns(cDb[c].messages) = 0
            THEN cDb[c].title = DefaultTitle
            ELSE /\ cDb[c].title = GenerateTitle(FirstUserMessage(cDb[c].messages).content)
                 /\ cDb[c].title.len <= TITLE_MAX

\* ------------------------------------------------------------------------
\* C27: addMessage never loses a message.  As a state predicate: whenever
\* no addMessage call is between its get and its update, every message that
\* was handed to addMessage is in the stored message lists exactly once.
\* ------------------------------------------------------------------------
AddMessageInFlight ==
    \/ cSubmit.pc \in {"get", "update"}
    \/ cFinish.pc \in {"get", "update"}

StoredCopies(id) ==
    { <<c, i>> \in ConvIds \X (1..(2 * (BaseTurns + MaxNewTurns))) :
        /\ i <= Len(cDb[c].messages)
        /\ cDb[c].messages[i].id = id }

C27_AddMessageLosesNothing ==
    ~AddMessageInFlight =>
        \A id \in DOMAIN cPersisted : Cardinality(StoredCopies(id)) = 1

\* ------------------------------------------------------------------------
\* C28: the mid-term summary sent with a chat request is the stored summary
\* of the active conversation, or absent when it has none.  As a state
\* predicate: in every state from which sendMessage runs, the midTermSummary
\* state that goes into the request body is the summary stored with the
\* current conversation.
\* ------------------------------------------------------------------------
AboutToSend == cSubmit.pc = "send" /\ cStatus = "ready"

C28_SentSummaryIsStoredSummary ==
    AboutToSend => cMid = cDb[cCur].summary

====
